---- MODULE Spec2Model ----
(***************************************************************************)
(* Adapter event pipeline of the game-server experiment harness:           *)
(*   - GameStateManager      (core/game/state_manager.py)                  *)
(*   - shutdown strategies   (core/server/shutdown_strategies.py)          *)
(*   - OAMessageProcessor    (core/adapters/openarena/message_processor.py)*)
(*   - OAGameAdapter         (core/adapters/openarena/adapter.py)          *)
(*   - AMPGameAdapter        (core/adapters/amp/adapter.py)                *)
(***************************************************************************)
EXTENDS Integers, Sequences, FiniteSets, TLC

(***************************************************************************)
(* Bounds of the model.                                                    *)
(***************************************************************************)
\* largest value of max_rounds = len(settings.latencies) * settings.repeats
MaxMaxRounds == 3
\* round_count is explored up to this value
MaxRoundCount == 4
\* largest settings.nplayers_threshold explored
MaxThreshold == 2
\* capacity of the AMP dedup cache explored; it stands for
\* self._max_seen_cache = 1000 (core/adapters/amp/adapter.py:111)
MaxSeenCache == 2
\* largest number of console entries returned by one GetUpdates call
MaxEntriesPerPoll == 2
\* largest number of send_command_sync calls explored
MaxCommands == 3
\* largest number of connect coroutines in flight for one address
MaxConnectTasks == 1
\* largest number of lines of one status block, the header included
MaxBlockLines == 5
\* most children start_server may leave running without a handle
MaxOrphans == 1

VARIABLES
    \* ---- GameStateManager --------------------------------------------
    current_state,      \* GameState: "WAITING" | "WARMUP" | "RUNNING"
    round_count,        \* self.round_count
    max_rounds,         \* self.max_rounds (fixed at construction)
    result,             \* dict returned by the last handle_* call
    \* ---- OAMessageProcessor ------------------------------------------
    recent_fraglimit_hit, \* self._recent_fraglimit_hit
    \* ---- OAGameAdapter -----------------------------------------------
    process,            \* self._process: "none" | "running" | "exited"
    orphaned,           \* history: children still running when start_server
                        \* replaced self._process
    shutdown_event,     \* self._shutdown_event.is_set()
    async_loop,         \* self._async_loop is not None
    insufficient_humans,\* self._insufficient_humans
    client_type_map,    \* NetworkManager.client_type_map ("NONE" = absent)
    human_count,        \* NetworkManager.human_count
    oa_pc,              \* position of run_server_loop
    last,               \* ParsedMessage dispatched by the latest loop iteration
    sent,               \* commands passed to send_command_sync by the last step
    scheduled,          \* coroutines submitted by run_async in the last step
    calls,              \* collaborator calls made by the last step
    bots_added,         \* GameManager._bots_added
    bot_addition_in_progress, \* GameManager._bot_addition_in_progress
    \* ---- settings ----------------------------------------------------
    nplayers_threshold, \* settings.nplayers_threshold
    latency_enabled,    \* settings.enable_latency_control
    bot_enable,         \* settings.bot_enable and settings.bot_count > 0
    \* ---- AMPGameAdapter ----------------------------------------------
    amp_polling,        \* self._polling
    amp_shutdown_requested, \* self._shutdown_requested
    amp_authenticated,  \* self.api.is_authenticated
    seen_messages,      \* self._seen_messages: its keys, oldest insertion first
    amp_pc,             \* position of read_messages
    amp_updates,        \* console entries of the current poll not yet iterated
    amp_yield,          \* lines whose events the last step yielded
    amp_panel,          \* the AMP panel: "up" | "updates_down" | "down"
    amp_http_session,   \* AMPAPIClient._http_session: "none" | "open" | "closed"
    amp_delivered,      \* history: keys delivered since the cache was last cleared
    \* ---- run_async, statement by statement -----------------------------
    ra_pc,              \* position of the thread inside run_async
    ra_coro,            \* the coroutine it was called with
    ra_submitted,       \* the coroutines handed to the async loop so far
    \* ---- GameAdapter.send_command_sync --------------------------------
    sc_invoked,         \* commands send_command was called with, in order
    sc_pending,         \* coroutines handed to the running loop, not yet run
    sc_done,            \* commands whose send_command coroutine has completed
    sc_result,          \* what the last send_command_sync call returned
    sc_loop_running,    \* the last call found a running loop in its context
    \* ---- NetworkManager maps and the OBS connect coroutines ------------
    client_ip_map,      \* NetworkManager.client_ip_map ("none" = absent)
    client_name_map,    \* NetworkManager.client_name_map ("none" = absent)
    ip_latency_map,     \* NetworkManager.ip_latency_map (-1 = absent)
    obs_status_map,     \* NetworkManager.obs_status_map ("absent" | "False" | "True")
    obs_waiting,        \* per address: connect coroutines awaiting connect_client_obs
    obs_cur,            \* the connect coroutine running on the async loop
    bot_count,          \* NetworkManager.bot_count
    player_count,       \* NetworkManager.player_count
    \* ---- status blocks: StatusParser and the two message processors ----
    transport,          \* whose calls are explored: "openarena" | "amp" | "parser"
    sp_state,           \* StatusParser._ctx.state: "IDLE" | "PARSING"
    sp_lines,           \* StatusParser._ctx.lines
    sp_seen_separator,  \* StatusParser._ctx.seen_separator
    sp_returned,        \* the lines the last complete() call of a bare parser returned
    in_player_section,  \* AMPMessageProcessor._in_player_section
    collected_clients,  \* AMPMessageProcessor._collected_clients
    status_event,       \* the ParsedMessage returned by the last process_message
    st_block,           \* history: the lines received since the latest header,
                        \* the header first; empty outside a block
    st_discarded,       \* history: the latest header arrived while a block
                        \* with valid client rows was open
    \* ---- OAMessageProcessor as a whole ------------------------------
    send_command,       \* MessageProcessor.send_command is set (a callback was injected)
    callback_calls,     \* the texts the last process_message passed to send_command
    mp_line,            \* history: the line the last process_message was given
    \* ---- GameManager.add_bots_to_server_async ------------------------
    bot_task,           \* position of each add_bots_to_server_async coroutine
    bot_i,              \* the loop index i of each coroutine: addbot commands it sent
    batch_senders,      \* history: coroutines that began a batch since reset_bot_state
    \* ---- _is_valid_ip of the two status parsers ----------------------
    ip_parts,           \* the argument ip, as the list ip.split(".") makes of it
    oa_valid,           \* what OAStatusParser._is_valid_ip(ip) returned
    amp_valid,          \* what AMPStatusParser._is_valid_ip(ip) returned
    \* ---- bookkeeping -------------------------------------------------
    op,                 \* name of the operation performed by the last step
    exit_pending        \* history: a GameEnd line was processed after the
                        \* most recent warmup-start / shutdown line

gsmVars  == <<current_state, round_count, max_rounds, result>>
procVars == <<recent_fraglimit_hit>>
oaVars   == <<process, orphaned, shutdown_event, async_loop, insufficient_humans,
              client_type_map, human_count, oa_pc, last, sent, scheduled, calls,
              bots_added, bot_addition_in_progress>>
cfgVars  == <<nplayers_threshold, latency_enabled, bot_enable>>
histVars == <<exit_pending>>
raVars   == <<ra_pc, ra_coro, ra_submitted>>
\* the components added to the adapters' own state
scVars   == <<sc_invoked, sc_pending, sc_done, sc_result, sc_loop_running>>
nmVars   == <<client_ip_map, client_name_map, ip_latency_map, obs_status_map,
              obs_waiting, obs_cur,
              bot_count, player_count>>
stVars   == <<transport, sp_state, sp_lines, sp_seen_separator, sp_returned,
              in_player_section, collected_clients, status_event, st_block,
              st_discarded>>
mpVars   == <<send_command, callback_calls, mp_line>>
gmVars   == <<bot_task, bot_i, batch_senders>>
ipVars   == <<ip_parts, oa_valid, amp_valid>>
extVars  == <<raVars, scVars, nmVars, stVars, mpVars, gmVars, ipVars>>
ampVars  == <<amp_polling, amp_shutdown_requested, amp_authenticated,
              seen_messages, amp_pc, amp_updates, amp_yield, amp_panel,
              amp_delivered, amp_http_session>>

GameState == {"WAITING", "WARMUP", "RUNNING"}

ClientIds == {0, 1}

(***************************************************************************)
(* GameStateManager                                                        *)
(***************************************************************************)
NoResult ==
    [state_changed |-> FALSE, round_completed |-> FALSE,
     experiment_finished |-> FALSE, actions |-> <<>>]

\* handle_warmup_detected: new current_state
handle_warmup_detected_state(cs) ==
    IF cs = "WAITING" THEN "WARMUP"
    ELSE IF cs = "WARMUP" THEN "WARMUP"
    ELSE IF cs = "RUNNING" THEN "WARMUP"
    ELSE cs

handle_warmup_detected_result(cs) ==
    [NoResult EXCEPT !.state_changed = (cs = "WAITING" \/ cs = "RUNNING")]

\* handle_game_initialization_detected
handle_game_initialization_detected_state(cs) == "RUNNING"

handle_game_initialization_detected_result(cs) ==
    [NoResult EXCEPT !.state_changed = TRUE]

\* handle_match_start_detected starting the match from every state
handle_match_start_detected_state_any(cs) == "RUNNING"

\* handle_match_start_detected
handle_match_start_detected_state(cs) ==
    IF cs = "WARMUP" THEN "RUNNING" ELSE cs

handle_match_start_detected_result(cs) ==
    IF cs = "WARMUP"
    THEN [NoResult EXCEPT !.state_changed = TRUE,
                          !.actions = <<"start_match_recording", "apply_latency">>]
    ELSE NoResult

\* handle_match_shutdown_detected counting the round in every state
handle_match_shutdown_detected_count_any(cs, rc) == rc + 1

\* handle_match_shutdown_detected: round_count after the call
handle_match_shutdown_detected_count(cs, rc) ==
    IF cs = "RUNNING" THEN rc + 1 ELSE rc

\* handle_match_shutdown_detected comparing with > instead of >=
handle_match_shutdown_detected_result_gt(cs, rc, mr) ==
    IF cs = "RUNNING"
    THEN IF rc + 1 > mr
         THEN [NoResult EXCEPT !.experiment_finished = TRUE]
         ELSE [NoResult EXCEPT !.round_completed = TRUE,
                               !.actions = <<"rotate_latency">>]
    ELSE NoResult

\* handle_match_shutdown_detected: returned dict
handle_match_shutdown_detected_result(cs, rc, mr) ==
    IF cs = "RUNNING"
    THEN IF rc + 1 >= mr
         THEN [NoResult EXCEPT !.experiment_finished = TRUE]
         ELSE [NoResult EXCEPT !.round_completed = TRUE,
                               !.actions = <<"rotate_latency">>]
    ELSE NoResult

\* transition_to / reset_to_waiting
transition_to(new_state) == new_state

reset_to_waiting == transition_to("WAITING")

(***************************************************************************)
(* OAMessageProcessor: console lines and the six marker patterns.          *)
(***************************************************************************)
\* console lines the child process may write to its error stream
Lines ==
    { "Client 0 connecting with 50 challenge ping",
      "ClientDisconnect: 0",
      "ClientDisconnect: 1",
      "------- Game Initialization -------",
      "Exit: Fraglimit hit.",
      "Exit: Timelimit hit.",
      "Exit: Capturelimit hit.",
      "Warmup:",
      "ShutdownGame:",
      "  ShutdownGame:",
      "" }

\* raw_message.strip()
Strip(l) == IF l = "  ShutdownGame:" THEN "ShutdownGame:" ELSE l

\* patterns[MessageType.X].match(raw_message)
MatchClientConnect(l)      == l = "Client 0 connecting with 50 challenge ping"
MatchClientDisconnect(l)   == l \in {"ClientDisconnect: 0", "ClientDisconnect: 1"}
MatchGameInitialization(l) == l = "------- Game Initialization -------"
MatchGameEnd(l)            == l \in {"Exit: Fraglimit hit.", "Exit: Timelimit hit."}
MatchWarmupStart(l)        == l = "Warmup:"
MatchServerShutdown(l)     == l = "ShutdownGame:"

\* int(match.group(1)) of the connect / disconnect patterns
MatchedClientId(l) ==
    IF l = "ClientDisconnect: 1" THEN 1 ELSE 0

\* process_message: the message type, by the fixed priority order of the patterns
process_message_type(raw) ==
    LET l == Strip(raw) IN
    IF l = "" THEN "UNKNOWN"
    ELSE IF MatchClientConnect(l) THEN "CLIENT_CONNECT"
    ELSE IF MatchClientDisconnect(l) THEN "CLIENT_DISCONNECT"
    ELSE IF MatchGameInitialization(l) THEN "GAME_INITIALIZATION"
    ELSE IF MatchGameEnd(l) THEN "GAME_END"
    ELSE IF MatchWarmupStart(l) THEN "WARMUP_START"
    ELSE IF MatchServerShutdown(l) THEN "SERVER_SHUTDOWN"
    ELSE "UNKNOWN"

\* _handle_shutdown_game: event_type
handle_shutdown_game_event(fraglimit_hit) ==
    IF fraglimit_hit THEN "match_end" ELSE "warmup_end"

\* process_message: data["event"] of the returned ParsedMessage
process_message_event(raw, fraglimit_hit) ==
    LET t == process_message_type(raw) IN
    IF t = "GAME_INITIALIZATION" THEN "game_initialization"
    ELSE IF t = "GAME_END" THEN "match_ended"
    ELSE IF t = "WARMUP_START" THEN "warmup_started"
    ELSE IF t = "SERVER_SHUTDOWN" THEN handle_shutdown_game_event(fraglimit_hit)
    ELSE "none"

\* process_message: the returned ParsedMessage
process_message(raw, fraglimit_hit) ==
    LET t == process_message_type(raw) IN
    [message_type |-> t,
     event        |-> process_message_event(raw, fraglimit_hit),
     client_id    |-> IF t \in {"CLIENT_CONNECT", "CLIENT_DISCONNECT"}
                      THEN MatchedClientId(Strip(raw)) ELSE -1]

\* the flag when _handle_warmup_state does not clear it
process_message_fraglimit_hit_sticky(raw, fraglimit_hit) ==
    LET t == process_message_type(raw) IN
    IF t = "GAME_END" THEN TRUE
    ELSE IF t = "SERVER_SHUTDOWN" THEN FALSE
    ELSE fraglimit_hit

\* process_message: self._recent_fraglimit_hit afterwards
\* (_handle_match_end sets it, _handle_warmup_state and _handle_shutdown_game clear it)
process_message_fraglimit_hit(raw, fraglimit_hit) ==
    LET t == process_message_type(raw) IN
    IF t = "GAME_END" THEN TRUE
    ELSE IF t = "WARMUP_START" THEN FALSE
    ELSE IF t = "SERVER_SHUTDOWN" THEN FALSE
    ELSE fraglimit_hit

(***************************************************************************)
(* Shutdown strategies (core/server/shutdown_strategies.py).  Each returns *)
(* the effect of one handle() call: the round state afterwards, the result *)
(* of the GameStateManager call it made, the commands it passed to         *)
(* send_command_sync, the coroutines it handed to run_async and the calls  *)
(* it made on the network / game managers.                                 *)
(***************************************************************************)
\* run_async(coro): the coroutine is submitted iff a loop is set and no
\* shutdown was requested
run_async(coro, loop_set, shutdown) ==
    IF loop_set /\ ~shutdown THEN <<coro>> ELSE <<>>

Contains(seq, x) == \E i \in 1..Len(seq) : seq[i] = x

\* MatchShutdownStrategy.handle without the final reset_to_waiting()
MatchShutdownStrategy_handle_noreset(cs, rc, mr, loop_set, shutdown) ==
    LET r == handle_match_shutdown_detected_result(cs, rc, mr) IN
    [current_state |-> cs,
     round_count   |-> handle_match_shutdown_detected_count(cs, rc),
     result        |-> r,
     scheduled     |-> run_async("stop_match_recording", loop_set, shutdown),
     calls         |-> IF Contains(r.actions, "rotate_latency")
                       THEN <<"rotate_latencies">> ELSE <<>>,
     sent          |-> IF r.experiment_finished
                       THEN <<"killserver">>
                       ELSE <<"say Match completed!">>]

\* MatchShutdownStrategy.handle rotating the latencies after every round
\* counted, the last one included
MatchShutdownStrategy_handle_rotating(cs, rc, mr, loop_set, shutdown) ==
    LET r == handle_match_shutdown_detected_result(cs, rc, mr) IN
    [current_state |-> reset_to_waiting,
     round_count   |-> handle_match_shutdown_detected_count(cs, rc),
     result        |-> r,
     scheduled     |-> run_async("stop_match_recording", loop_set, shutdown),
     calls         |-> IF cs = "RUNNING" THEN <<"rotate_latencies">> ELSE <<>>,
     sent          |-> IF r.experiment_finished
                       THEN <<"killserver">>
                       ELSE <<"say Match completed!">>]

MatchShutdownStrategy_handle(cs, rc, mr, loop_set, shutdown) ==
    LET r == handle_match_shutdown_detected_result(cs, rc, mr) IN
    [current_state |-> reset_to_waiting,
     round_count   |-> handle_match_shutdown_detected_count(cs, rc),
     result        |-> r,
     scheduled     |-> run_async("stop_match_recording", loop_set, shutdown),
     calls         |-> IF Contains(r.actions, "rotate_latency")
                       THEN <<"rotate_latencies">> ELSE <<>>,
     sent          |-> IF r.experiment_finished
                       THEN <<"killserver">>
                       ELSE <<"say Match completed!">>]

WarmupShutdownStrategy_handle(cs, rc, insufficient, lat_enabled, loop_set, shutdown) ==
    IF insufficient
    THEN \* game_manager.set_next_round_with_warmup_phase(); return
         [current_state |-> cs,
          round_count   |-> rc,
          result        |-> NoResult,
          scheduled     |-> <<>>,
          calls         |-> <<"set_next_round_with_warmup_phase">>,
          sent          |-> <<"set g_doWarmup 1", "set g_warmup">>]
    ELSE LET r == handle_match_start_detected_result(cs) IN
         [current_state |-> reset_to_waiting,
          round_count   |-> rc,
          result        |-> r,
          scheduled     |-> IF Contains(r.actions, "start_match_recording")
                            THEN run_async("start_match_recording", loop_set, shutdown)
                            ELSE <<>>,
          calls         |-> IF Contains(r.actions, "apply_latency") /\ lat_enabled
                            THEN <<"apply_latency_rules">> ELSE <<>>,
          sent          |-> <<>>]

\* _on_shutdown: strategy lookup by msg.data["event"]
on_shutdown(event, cs, rc, mr, insufficient, lat_enabled, loop_set, shutdown) ==
    IF event = "match_end"
    THEN MatchShutdownStrategy_handle(cs, rc, mr, loop_set, shutdown)
    ELSE WarmupShutdownStrategy_handle(cs, rc, insufficient, lat_enabled, loop_set, shutdown)

(***************************************************************************)
(* NetworkManager client tracking, as far as the adapter's threshold       *)
(* decision reads it.                                                      *)
(***************************************************************************)
CountType(m, t) == Cardinality({c \in ClientIds : m[c] = t})

\* add_client: client_type_map afterwards
add_client_map(m, cid, is_bot) ==
    [m EXCEPT ![cid] = IF is_bot THEN "BOT" ELSE "HUMAN"]

\* add_client: human_count afterwards (recomputed only on the human branch)
add_client_human_count(m, hc, cid, is_bot) ==
    IF is_bot THEN hc ELSE CountType(add_client_map(m, cid, is_bot), "HUMAN")

\* remove_client forgetting every tracked client
remove_client_map_all(m, cid) == [c \in ClientIds |-> "NONE"]

\* remove_client: client_type_map afterwards
remove_client_map(m, cid) == [m EXCEPT ![cid] = "NONE"]

\* remove_client: human_count afterwards
remove_client_human_count(m, cid) == CountType(remove_client_map(m, cid), "HUMAN")

\* add_client leaving bot_count alone on the bot branch as well
add_client_bot_count_stale(m, bc, cid, is_bot) == bc

\* add_client: bot_count afterwards (recomputed only on the bot branch)
add_client_bot_count(m, bc, cid, is_bot) ==
    IF is_bot THEN CountType(add_client_map(m, cid, is_bot), "BOT") ELSE bc

\* remove_client: bot_count afterwards
remove_client_bot_count(m, cid) == CountType(remove_client_map(m, cid), "BOT")

\* _update_insufficient_humans
update_insufficient_humans(hc, threshold) == hc < threshold

(***************************************************************************)
(* Initial values of each component (the state after construction).        *)
(***************************************************************************)
\* GameStateManager.__init__ counting the rounds from 0
InitGameStateManager_from_zero ==
    /\ current_state = "WAITING"
    /\ round_count = 0
    /\ result = NoResult

InitGameStateManager ==
    /\ current_state = "WAITING"
    /\ round_count = 1
    /\ result = NoResult

InitOAMessageProcessor ==
    /\ recent_fraglimit_hit = FALSE

NoMessage == [message_type |-> "NONE", event |-> "none", client_id |-> -1]

InitOAGameAdapter ==
    /\ process = "none"
    /\ orphaned = 0
    /\ shutdown_event = FALSE
    /\ async_loop = FALSE
    /\ insufficient_humans = FALSE
    /\ client_type_map = [c \in ClientIds |-> "NONE"]
    /\ human_count = 0
    /\ oa_pc = "idle"
    /\ last = NoMessage
    /\ sent = <<>>
    /\ scheduled = <<>>
    /\ calls = <<>>
    /\ bots_added = FALSE
    /\ bot_addition_in_progress = FALSE

\* AMPGameAdapter.__init__; the panel starts reachable
InitAMPGameAdapter ==
    /\ amp_polling = FALSE
    /\ amp_shutdown_requested = FALSE
    /\ amp_authenticated = FALSE
    /\ seen_messages = <<>>
    /\ amp_pc = "idle"
    /\ amp_updates = <<>>
    /\ amp_yield = <<>>
    /\ amp_panel = "up"
    /\ amp_delivered = {}
    /\ amp_http_session = "none"

\* no thread is inside run_async
InitRunAsync ==
    /\ ra_pc = "idle"
    /\ ra_coro = "none"
    /\ ra_submitted = {}

\* no command has been sent
InitSendCommandSync ==
    /\ sc_invoked = <<>>
    /\ sc_pending = <<>>
    /\ sc_done = <<>>
    /\ sc_result = "none"
    /\ sc_loop_running = FALSE

\* addresses of the human clients
IPs == {"10.0.0.1", "10.0.0.2"}

\* no connect coroutine is past its await
NoTask == [ip |-> "none", connected |-> FALSE, pc |-> "none"]

\* NetworkManager.__init__ and OBSConnectionManager.__init__
InitNetworkManager ==
    /\ client_ip_map = [c \in ClientIds |-> "none"]
    /\ client_name_map = [c \in ClientIds |-> "none"]
    /\ ip_latency_map = [i \in IPs |-> -1]
    /\ obs_status_map = [i \in IPs |-> "absent"]
    /\ obs_waiting = [i \in IPs |-> 0]
    /\ obs_cur = NoTask
    /\ bot_count = 0
    /\ player_count = 0

\* no ParsedMessage yet
NoStatusEvent ==
    [message_type |-> "NONE", status_complete |-> FALSE, clients |-> <<>>]

\* StatusParser.__init__, AMPMessageProcessor.__init__
InitStatusProcessors ==
    /\ sp_state = "IDLE"
    /\ sp_lines = <<>>
    /\ sp_seen_separator = FALSE
    /\ sp_returned = <<>>
    /\ in_player_section = FALSE
    /\ collected_clients = <<>>
    /\ status_event = NoStatusEvent
    /\ st_block = <<>>
    /\ st_discarded = FALSE

\* the line records of the console: NoLine before any was read
NoLine == [kind |-> "none", client_id |-> -1, name |-> "",
           address |-> [bot |-> FALSE, octets |-> <<>>]]

\* MessageProcessor.__init__ as the adapter calls it:
\* OAMessageProcessor(self.send_command_sync)
\* largest number of add_bots_to_server_async coroutines explored
MaxBotTasks == 2
\* settings.bot_count, the length of the batch
BotCount == 2

BotTasks == 1..MaxBotTasks

\* no address has been validated
InitValidators ==
    /\ ip_parts = <<"">>
    /\ oa_valid = FALSE
    /\ amp_valid = FALSE

\* GameManager.__init__: no coroutine exists yet
InitGameManager ==
    /\ bot_task = [t \in BotTasks |-> "none"]
    /\ bot_i = [t \in BotTasks |-> 0]
    /\ batch_senders = {}

InitMessageProcessor ==
    /\ send_command = TRUE
    /\ callback_calls = <<>>
    /\ mp_line = NoLine

InitExt ==
    /\ InitRunAsync
    /\ InitSendCommandSync
    /\ InitNetworkManager
    /\ InitStatusProcessors
    /\ InitMessageProcessor
    /\ InitGameManager
    /\ InitValidators
    /\ transport = "openarena"

InitHistory ==
    /\ op = "init"
    /\ exit_pending = FALSE

\* one fixed configuration, for the specifications that do not read it
DefaultSettings ==
    /\ max_rounds = MaxMaxRounds
    /\ nplayers_threshold = 1
    /\ latency_enabled = FALSE
    /\ bot_enable = FALSE

\* every configuration within the bounds
AnySettings ==
    /\ max_rounds \in 0..MaxMaxRounds
    /\ nplayers_threshold \in 1..MaxThreshold
    /\ latency_enabled \in BOOLEAN
    /\ bot_enable \in BOOLEAN

(***************************************************************************)
(* GameStateManager driven directly: every method, in any order.           *)
(***************************************************************************)
GSM_handle_warmup_detected ==
    /\ current_state' = handle_warmup_detected_state(current_state)
    /\ result' = handle_warmup_detected_result(current_state)
    /\ op' = "handle_warmup_detected"
    /\ UNCHANGED round_count

GSM_handle_game_initialization_detected ==
    /\ current_state' = handle_game_initialization_detected_state(current_state)
    /\ result' = handle_game_initialization_detected_result(current_state)
    /\ op' = "handle_game_initialization_detected"
    /\ UNCHANGED round_count

GSM_handle_match_start_detected ==
    /\ current_state' = handle_match_start_detected_state(current_state)
    /\ result' = handle_match_start_detected_result(current_state)
    /\ op' = "handle_match_start_detected"
    /\ UNCHANGED round_count

GSM_handle_match_shutdown_detected ==
    /\ handle_match_shutdown_detected_count(current_state, round_count) <= MaxRoundCount
    /\ round_count' = handle_match_shutdown_detected_count(current_state, round_count)
    /\ result' = handle_match_shutdown_detected_result(current_state, round_count, max_rounds)
    /\ op' = "handle_match_shutdown_detected"
    /\ UNCHANGED current_state

GSM_reset_to_waiting ==
    /\ current_state' = reset_to_waiting
    /\ op' = "reset_to_waiting"
    /\ UNCHANGED <<round_count, result>>

InitGSM ==
    /\ InitGameStateManager
    /\ max_rounds \in 0..MaxMaxRounds
    /\ nplayers_threshold = 1
    /\ latency_enabled = FALSE
    /\ bot_enable = FALSE
    /\ InitOAMessageProcessor
    /\ InitOAGameAdapter
    /\ InitAMPGameAdapter
    /\ InitExt
    /\ InitHistory

NextGSM ==
    /\ \/ GSM_handle_warmup_detected
       \/ GSM_handle_game_initialization_detected
       \/ GSM_handle_match_start_detected
       \/ GSM_handle_match_shutdown_detected
       \/ GSM_reset_to_waiting
    /\ UNCHANGED <<max_rounds, procVars, oaVars, cfgVars, histVars, ampVars, extVars>>

vars == <<gsmVars, procVars, oaVars, cfgVars, histVars, ampVars, extVars, op>>

SpecGSM == InitGSM /\ [][NextGSM]_vars

(***************************************************************************)
(* OAGameAdapter: run_server_loop and the operations of the other threads. *)
(* One loop iteration (read one line, parse it, run its handler to the     *)
(* end, sleep) is one step.                                                *)
(***************************************************************************)
\* _on_client_connect (the processor has already sent "status")
OnClientConnect(msg) ==
    /\ sent' = <<"status">>
    /\ scheduled' = <<>>
    /\ calls' = <<>>
    /\ result' = NoResult
    /\ UNCHANGED <<current_state, round_count, client_type_map, human_count,
                   insufficient_humans>>

\* _on_client_disconnect
OnClientDisconnect(msg) ==
    /\ \E obs_connected \in BOOLEAN :
          scheduled' = IF client_type_map[msg.client_id] = "HUMAN" /\ obs_connected
                       THEN run_async("disconnect_client", async_loop, shutdown_event)
                       ELSE <<>>
    /\ client_type_map' = remove_client_map(client_type_map, msg.client_id)
    /\ human_count' = remove_client_human_count(client_type_map, msg.client_id)
    /\ insufficient_humans' = update_insufficient_humans(human_count', nplayers_threshold)
    /\ calls' = <<"remove_client">>
    /\ sent' = <<>>
    /\ result' = NoResult
    /\ UNCHANGED <<current_state, round_count>>

\* _on_game_initialization
OnGameInitialization(msg) ==
    /\ current_state' = handle_game_initialization_detected_state(current_state)
    /\ result' = handle_game_initialization_detected_result(current_state)
    /\ sent' = <<>>
    /\ scheduled' = <<>>
    /\ calls' = <<>>
    /\ UNCHANGED <<round_count, client_type_map, human_count, insufficient_humans>>

\* _on_match_end
OnMatchEnd(msg) ==
    /\ sent' = <<"say Match ended!">>
    /\ scheduled' = <<>>
    /\ calls' = <<>>
    /\ result' = NoResult
    /\ UNCHANGED <<current_state, round_count, client_type_map, human_count,
                   insufficient_humans>>

\* _on_warmup
OnWarmup(msg) ==
    /\ current_state' = handle_warmup_detected_state(current_state)
    /\ result' = handle_warmup_detected_result(current_state)
    /\ scheduled' = IF bot_enable /\ ~bots_added /\ ~bot_addition_in_progress
                    THEN run_async("add_bots_to_server_async", async_loop, shutdown_event)
                    ELSE <<>>
    /\ sent' = <<>>
    /\ calls' = <<>>
    /\ UNCHANGED <<round_count, client_type_map, human_count, insufficient_humans>>

\* _on_shutdown
OnShutdown(msg) ==
    LET e == on_shutdown(msg.event, current_state, round_count, max_rounds,
                         insufficient_humans, latency_enabled, async_loop,
                         shutdown_event) IN
    /\ e.round_count <= MaxRoundCount
    /\ current_state' = e.current_state
    /\ round_count' = e.round_count
    /\ result' = e.result
    /\ scheduled' = e.scheduled
    /\ calls' = e.calls
    /\ sent' = e.sent
    /\ UNCHANGED <<client_type_map, human_count, insufficient_humans>>

\* no handler registered for the message type (UNKNOWN)
OnUnhandled(msg) ==
    /\ sent' = <<>>
    /\ scheduled' = <<>>
    /\ calls' = <<>>
    /\ result' = NoResult
    /\ UNCHANGED <<current_state, round_count, client_type_map, human_count,
                   insufficient_humans>>

\* process_server_message: message_handlers.get(parsed.message_type)
Dispatch(msg) ==
    \/ msg.message_type = "CLIENT_CONNECT" /\ OnClientConnect(msg)
    \/ msg.message_type = "CLIENT_DISCONNECT" /\ OnClientDisconnect(msg)
    \/ msg.message_type = "GAME_INITIALIZATION" /\ OnGameInitialization(msg)
    \/ msg.message_type = "GAME_END" /\ OnMatchEnd(msg)
    \/ msg.message_type = "WARMUP_START" /\ OnWarmup(msg)
    \/ msg.message_type = "SERVER_SHUTDOWN" /\ OnShutdown(msg)
    \/ msg.message_type = "UNKNOWN" /\ OnUnhandled(msg)

\* the history of GameEnd lines, told from the text of the line alone
ExitPendingAfter(l, pending) ==
    IF Strip(l) \in {"Exit: Fraglimit hit.", "Exit: Timelimit hit."} THEN TRUE
    ELSE IF Strip(l) \in {"Warmup:", "ShutdownGame:"} THEN FALSE
    ELSE pending

\* process_server_message(raw_message): parse the line and run its handler
ProcessServerMessage(l) ==
    /\ LET msg == process_message(l, recent_fraglimit_hit) IN
          /\ last' = msg
          /\ Dispatch(msg)
    /\ recent_fraglimit_hit' = process_message_fraglimit_hit(l, recent_fraglimit_hit)
    /\ exit_pending' = ExitPendingAfter(l, exit_pending)
    /\ UNCHANGED <<process, orphaned, shutdown_event, async_loop, bots_added,
                   bot_addition_in_progress, max_rounds, cfgVars, op>>

\* _process_discovered_client without the test for a tracked id
process_discovered_client_again(cid, is_bot) ==
    /\ client_type_map' = add_client_map(client_type_map, cid, is_bot)
    /\ human_count' = add_client_human_count(client_type_map, human_count, cid, is_bot)
    /\ insufficient_humans' = update_insufficient_humans(human_count', nplayers_threshold)
    /\ calls' = <<"add_client">>
    /\ scheduled' = IF is_bot THEN <<>>
                    ELSE run_async("connect_single_client_immediately",
                                   async_loop, shutdown_event)

\* _process_discovered_client, reached from _on_status when a status row
\* reports client cid (is_bot: its address column is "bot")
process_discovered_client(cid, is_bot) ==
    IF client_type_map[cid] # "NONE"
    THEN /\ scheduled' = <<>>
         /\ calls' = <<>>
         /\ UNCHANGED <<client_type_map, human_count, insufficient_humans>>
    ELSE /\ client_type_map' = add_client_map(client_type_map, cid, is_bot)
         /\ human_count' = add_client_human_count(client_type_map, human_count, cid, is_bot)
         /\ insufficient_humans' = update_insufficient_humans(human_count', nplayers_threshold)
         /\ calls' = <<"add_client">>
         /\ scheduled' = IF is_bot THEN <<>>
                         ELSE run_async("connect_single_client_immediately",
                                        async_loop, shutdown_event)

\* process_server_message for a line that is a client row of a status block
ProcessStatusRow(cid, is_bot) ==
    /\ last' = [message_type |-> "STATUS_UPDATE", event |-> "none", client_id |-> cid]
    /\ process_discovered_client(cid, is_bot)
    /\ sent' = <<>>
    /\ result' = NoResult
    /\ UNCHANGED <<current_state, round_count, procVars, histVars, process, orphaned,
                   shutdown_event, async_loop, bots_added, bot_addition_in_progress,
                   max_rounds, cfgVars, op>>

\* run_server_loop: one iteration that reads a non-empty line from the child
OA_ReadLine(l) ==
    /\ oa_pc = "read"
    /\ process = "running"
    /\ l # ""
    /\ ProcessServerMessage(l)
    /\ oa_pc' = "check"

\* run_server_loop: one iteration whose line is a client row of a status block
OA_ReadStatusRow(cid, is_bot) ==
    /\ oa_pc = "read"
    /\ process = "running"
    /\ ProcessStatusRow(cid, is_bot)
    /\ oa_pc' = "check"

\* what a step leaves alone when it only moves the loop or a flag
OAFrame ==
    UNCHANGED <<gsmVars, procVars, histVars, cfgVars, insufficient_humans,
                client_type_map, human_count, sent, scheduled, calls,
                bots_added, bot_addition_in_progress>>

\* run_server_loop: an iteration that reads an empty line (nothing dispatched)
OA_ReadEmptyLine ==
    /\ oa_pc = "read"
    /\ last' = NoMessage
    /\ process = "running"
    /\ oa_pc' = "check"
    /\ UNCHANGED op
    /\ OAFrame
    /\ UNCHANGED <<process, orphaned, shutdown_event, async_loop>>

\* run_server_loop: readline() at end-of-file of an exited child returns ""
OA_ReadEOF ==
    /\ oa_pc = "read"
    /\ last' = NoMessage
    /\ process = "exited"
    /\ oa_pc' = "check"
    /\ UNCHANGED op
    /\ OAFrame
    /\ UNCHANGED <<process, orphaned, shutdown_event, async_loop>>

\* run_server_loop: self._process is None, the read raises AttributeError,
\* caught by "except Exception" around the loop
OA_ReadNoProcess ==
    /\ oa_pc = "read"
    /\ last' = NoMessage
    /\ process = "none"
    /\ oa_pc' = "done"
    /\ UNCHANGED op
    /\ OAFrame
    /\ UNCHANGED <<process, orphaned, shutdown_event, async_loop>>

\* run_server_loop: while not self.is_shutdown_requested()
OA_LoopCheck ==
    /\ UNCHANGED last
    /\ oa_pc = "check"
    /\ oa_pc' = IF shutdown_event THEN "done" ELSE "read"
    /\ UNCHANGED op
    /\ OAFrame
    /\ UNCHANGED <<process, orphaned, shutdown_event, async_loop>>

\* run_server_loop is entered (by the server thread)
OA_RunServerLoop ==
    /\ UNCHANGED last
    /\ oa_pc \in {"idle", "done"}
    /\ oa_pc' = "check"
    /\ UNCHANGED op
    /\ OAFrame
    /\ UNCHANGED <<process, orphaned, shutdown_event, async_loop>>

\* start_server clearing the shutdown flag, as the AMP connect() does
OA_StartServer_clearing ==
    /\ UNCHANGED last
    /\ \E ok \in BOOLEAN :
          /\ process' = IF ok THEN "running" ELSE process
          /\ orphaned' = IF ok /\ process = "running" THEN orphaned + 1 ELSE orphaned
    /\ orphaned' <= MaxOrphans
    /\ shutdown_event' = FALSE
    /\ UNCHANGED op
    /\ OAFrame
    /\ UNCHANGED <<oa_pc, async_loop>>

\* connect / start_server: Popen succeeds or raises
OA_StartServer ==
    /\ UNCHANGED last
    /\ \E ok \in BOOLEAN :
          /\ process' = IF ok THEN "running" ELSE process
          /\ orphaned' = IF ok /\ process = "running" THEN orphaned + 1 ELSE orphaned
    /\ orphaned' <= MaxOrphans
    /\ UNCHANGED op
    /\ OAFrame
    /\ UNCHANGED <<oa_pc, shutdown_event, async_loop>>

\* disconnect / stop_server
OA_StopServer ==
    /\ UNCHANGED last
    /\ shutdown_event' = TRUE
    /\ process' = IF process = "running" THEN "exited" ELSE process
    /\ UNCHANGED orphaned
    /\ UNCHANGED op
    /\ OAFrame
    /\ UNCHANGED <<oa_pc, async_loop>>

\* request_shutdown
OA_RequestShutdown ==
    /\ UNCHANGED last
    /\ shutdown_event' = TRUE
    /\ UNCHANGED op
    /\ OAFrame
    /\ UNCHANGED <<oa_pc, process, orphaned, async_loop>>

\* set_async_loop
OA_SetAsyncLoop ==
    /\ UNCHANGED last
    /\ async_loop' = TRUE
    /\ UNCHANGED op
    /\ OAFrame
    /\ UNCHANGED <<oa_pc, process, orphaned, shutdown_event>>

\* the child process exits by itself (for example after "killserver")
OA_ProcessExit ==
    /\ UNCHANGED last
    /\ process = "running"
    /\ process' = "exited"
    /\ UNCHANGED orphaned
    /\ UNCHANGED op
    /\ OAFrame
    /\ UNCHANGED <<oa_pc, shutdown_event, async_loop>>

OALoopStep ==
    \/ \E l \in Lines : OA_ReadLine(l)
    \/ \E cid \in ClientIds, is_bot \in BOOLEAN : OA_ReadStatusRow(cid, is_bot)
    \/ OA_ReadEmptyLine
    \/ OA_ReadEOF
    \/ OA_ReadNoProcess
    \/ OA_LoopCheck

InitOA ==
    /\ InitGameStateManager
    /\ InitOAMessageProcessor
    /\ InitOAGameAdapter
    /\ InitAMPGameAdapter
    /\ InitExt
    /\ InitHistory
    /\ AnySettings

\* the adapter under one configuration
InitOALoop ==
    /\ InitGameStateManager
    /\ InitOAMessageProcessor
    /\ InitOAGameAdapter
    /\ InitAMPGameAdapter
    /\ InitExt
    /\ InitHistory
    /\ DefaultSettings

NextOA ==
    /\ \/ OALoopStep
       \/ OA_RunServerLoop
       \/ OA_StartServer
       \/ OA_StopServer
       \/ OA_RequestShutdown
       \/ OA_SetAsyncLoop
       \/ OA_ProcessExit
    /\ UNCHANGED <<ampVars, extVars>>

SpecOA == InitOALoop /\ [][NextOA]_vars

\* the steps run_server_loop takes by itself: the loop test, and a read that
\* returns without the child writing anything
OAFairLoopStep ==
    /\ \/ OA_LoopCheck
       \/ OA_ReadEOF
       \/ OA_ReadNoProcess
    /\ UNCHANGED <<ampVars, extVars>>

\* the server thread keeps running, and a readline() that met the end of the
\* child's stream returns even if the server is started again meanwhile
\* (strong fairness); the child process is under no obligation to write a
\* line, and nobody is obliged to call stop_server
FairSpecOA == SpecOA /\ SF_vars(OAFairLoopStep)

(***************************************************************************)
(* The event pipeline alone: process_server_message called with any        *)
(* sequence of lines, under every configuration, while other threads set   *)
(* the async loop and request shutdown.                                    *)
(***************************************************************************)
Pipe_process_server_message ==
    /\ \E l \in Lines : ProcessServerMessage(l)
    /\ UNCHANGED oa_pc

Pipe_process_status_row ==
    /\ \E cid \in ClientIds, is_bot \in BOOLEAN : ProcessStatusRow(cid, is_bot)
    /\ UNCHANGED oa_pc

NextPipe ==
    /\ \/ Pipe_process_server_message
       \/ Pipe_process_status_row
       \/ OA_RequestShutdown
       \/ OA_SetAsyncLoop
    /\ UNCHANGED <<ampVars, extVars>>

SpecPipe == InitOA /\ [][NextPipe]_vars

(***************************************************************************)
(* AMPGameAdapter: read_messages (the poll loop) and the lifecycle calls.   *)
(* A console entry is [timestamp, lines]: lines is what                     *)
(* entry.contents.split("\n") returns, entry.contents is their join.        *)
(***************************************************************************)
\* the contents of console entries: a single line; a line, a blank line and
\* a second line
EntryLines == { <<"Warmup:">>, <<"ShutdownGame:", "  ", "Warmup:">> }

Timestamps == {0, 1}

ConsoleEntries == [timestamp : Timestamps, lines : EntryLines]

\* entry.timestamp.isoformat() for the timestamps of the model
isoformat(ts) == "2024-01-01T00:00:0" \o ToString(ts) \o "+00:00"

RECURSIVE JoinLines(_)
\* entry.contents: the lines joined by "\n"
JoinLines(ls) ==
    IF Len(ls) = 0 THEN ""
    ELSE IF Len(ls) = 1 THEN ls[1]
    ELSE ls[1] \o "\n" \o JoinLines(Tail(ls))

\* msg_key = f"{entry.timestamp.isoformat()}:{entry.contents}"
msg_key(entry) == isoformat(entry.timestamp) \o ":" \o JoinLines(entry.lines)

\* msg_key in self._seen_messages
InCache(cache, key) == \E i \in 1..Len(cache) : cache[i] = key

\* mutant of popitem_while_over: pops the newest key (popitem(last=True))
popitem_while_over_newest(cache, cap) ==
    IF Len(cache) > cap THEN SubSeq(cache, 1, cap) ELSE cache

RECURSIVE popitem_while_over(_, _)
\* while len(self._seen_messages) > self._max_seen_cache: popitem(last=False)
popitem_while_over(cache, cap) ==
    IF Len(cache) > cap THEN popitem_while_over(Tail(cache), cap) ELSE cache

\* mutant of seen_messages_after: a hit moves the key to the newest position
seen_messages_after_refresh(cache, entry) ==
    popitem_while_over(
        Append(SelectSeq(cache, LAMBDA k : k # msg_key(entry)), msg_key(entry)),
        MaxSeenCache)

\* self._seen_messages after the entry went through the dedup check
seen_messages_after(cache, entry) ==
    IF InCache(cache, msg_key(entry)) THEN cache
    ELSE popitem_while_over(Append(cache, msg_key(entry)), MaxSeenCache)

\* line.strip() is non-empty
NonBlank(line) == line \notin {"", "  "}

\* mutant of yielded_lines: the dedup check is skipped
yielded_lines_nodedup(cache, entry) == SelectSeq(entry.lines, NonBlank)

\* mutant of yielded_lines: the lines of an entry are yielded last line first
yielded_lines_reversed(cache, entry) ==
    IF InCache(cache, msg_key(entry)) THEN <<>>
    ELSE LET ls == SelectSeq(entry.lines, NonBlank) IN
         [i \in 1..Len(ls) |-> ls[Len(ls) + 1 - i]]

\* the lines of the entry whose events read_messages yields
yielded_lines(cache, entry) ==
    IF InCache(cache, msg_key(entry)) THEN <<>>
    ELSE SelectSeq(entry.lines, NonBlank)

\* the console_entries lists one GetUpdates call can return
PollResponses ==
    UNION { [1..n -> ConsoleEntries] : n \in 0..MaxEntriesPerPoll }

AMPRunning == amp_pc \in {"loop", "entries", "relogin", "sleep"}

\* every AMP step leaves the OpenArena side alone
AMPFrame == UNCHANGED <<gsmVars, procVars, oaVars, cfgVars, histVars, extVars>>


\* _get_session: the session every _api_call posts on; one is created when
\* there is none or it was closed
get_session == "open"

\* close(): logout(), then the HTTP session is closed if there is an open one
api_close(session) == IF session = "open" THEN "closed" ELSE session

\* while self._polling and self.is_connected and not self._shutdown_requested
read_messages_condition ==
    amp_polling /\ amp_authenticated /\ ~amp_shutdown_requested

\* connect(): api.login() returns (ok) or raises AMPAPIError
AMP_Connect(ok) ==
    /\ amp_pc \in {"idle", "done"}
    /\ ok => amp_panel # "down"
    /\ amp_shutdown_requested' = FALSE
    /\ amp_polling' = FALSE
    /\ amp_authenticated' = ok
    /\ amp_yield' = <<>>
    /\ op' = IF ok THEN "connect_true" ELSE "connect_false"
    /\ UNCHANGED <<seen_messages, amp_pc, amp_updates, amp_panel, amp_delivered>>
    /\ AMPFrame
    /\ amp_http_session' = get_session

\* disconnect(); cancelled: the server-loop future exists and is cancelled
AMP_Disconnect(cancelled) ==
    /\ amp_pc # "entries"
    /\ amp_polling' = FALSE
    /\ amp_shutdown_requested' = TRUE
    /\ amp_pc' = IF cancelled /\ AMPRunning THEN "done" ELSE amp_pc
    /\ IF amp_authenticated
       THEN /\ amp_authenticated' = FALSE
            /\ amp_http_session' = api_close(amp_http_session)
            /\ seen_messages' = <<>>
            /\ amp_delivered' = {}
       ELSE UNCHANGED <<amp_authenticated, amp_http_session, seen_messages,
                        amp_delivered>>
    /\ amp_yield' = <<>>
    /\ op' = "disconnect"
    /\ UNCHANGED <<amp_updates, amp_panel>>
    /\ AMPFrame

\* request_shutdown()
AMP_RequestShutdown ==
    /\ amp_shutdown_requested' = TRUE
    /\ amp_polling' = FALSE
    /\ amp_yield' = <<>>
    /\ op' = "request_shutdown"
    /\ UNCHANGED <<amp_authenticated, seen_messages, amp_pc, amp_updates,
                   amp_panel, amp_delivered>>
    /\ AMPFrame
    /\ UNCHANGED amp_http_session

\* stop_server()
AMP_StopServer ==
    /\ amp_shutdown_requested' = TRUE
    /\ amp_polling' = FALSE
    /\ amp_yield' = <<>>
    /\ op' = "stop_server"
    /\ UNCHANGED <<amp_authenticated, seen_messages, amp_pc, amp_updates,
                   amp_panel, amp_delivered>>
    /\ AMPFrame
    /\ UNCHANGED amp_http_session

\* read_messages() is iterated: the statements before the while loop
AMP_ReadMessages ==
    /\ amp_pc \in {"idle", "done"}
    /\ amp_polling' = TRUE
    /\ seen_messages' = <<>>
    /\ amp_delivered' = {}
    /\ amp_pc' = "loop"
    /\ amp_yield' = <<>>
    /\ op' = "read_messages"
    /\ UNCHANGED <<amp_shutdown_requested, amp_authenticated, amp_updates, amp_panel>>
    /\ AMPFrame
    /\ UNCHANGED amp_http_session

\* what a step of the poll loop leaves alone besides the cache
AMPLoopFrame ==
    /\ UNCHANGED <<amp_polling, amp_shutdown_requested, amp_panel>>
    /\ AMPFrame

\* the while condition is false: the generator ends
AMP_LoopExit ==
    /\ amp_pc = "loop"
    /\ ~read_messages_condition
    /\ amp_pc' = "done"
    /\ amp_yield' = <<>>
    /\ UNCHANGED <<amp_authenticated, seen_messages, amp_updates, amp_delivered>>
    /\ op' = "loop_exit"
    /\ AMPLoopFrame
    /\ UNCHANGED amp_http_session

\* the while condition is true and api.get_updates() returns entries
AMP_GetUpdates(entries) ==
    /\ amp_pc = "loop"
    /\ read_messages_condition
    /\ amp_panel = "up"
    /\ amp_updates' = entries
    /\ amp_pc' = "entries"
    /\ amp_yield' = <<>>
    /\ UNCHANGED <<amp_authenticated, seen_messages, amp_delivered>>
    /\ op' = "get_updates"
    /\ AMPLoopFrame
    /\ UNCHANGED amp_http_session

\* the while condition is true and api.get_updates() raises AMPAPIError
AMP_GetUpdatesFails ==
    /\ amp_pc = "loop"
    /\ read_messages_condition
    /\ amp_pc' = "relogin"
    /\ amp_yield' = <<>>
    /\ UNCHANGED <<amp_authenticated, seen_messages, amp_updates, amp_delivered>>
    /\ op' = "get_updates_failed"
    /\ AMPLoopFrame
    /\ UNCHANGED amp_http_session

\* one iteration of "for entry in updates.console_entries"
AMP_ProcessEntry ==
    /\ amp_pc = "entries"
    /\ amp_updates # <<>>
    /\ LET entry == Head(amp_updates) IN
          /\ seen_messages' = seen_messages_after(seen_messages, entry)
          /\ amp_yield' = yielded_lines(seen_messages, entry)
          /\ amp_delivered' = amp_delivered \cup {msg_key(entry)}
    /\ amp_updates' = Tail(amp_updates)
    /\ UNCHANGED <<amp_authenticated, amp_pc>>
    /\ op' = "process_entry"
    /\ AMPLoopFrame
    /\ UNCHANGED amp_http_session

\* the for loop is exhausted
AMP_EntriesDone ==
    /\ amp_pc = "entries"
    /\ amp_updates = <<>>
    /\ amp_pc' = "sleep"
    /\ amp_yield' = <<>>
    /\ UNCHANGED <<amp_authenticated, seen_messages, amp_updates, amp_delivered>>
    /\ op' = "entries_done"
    /\ AMPLoopFrame
    /\ UNCHANGED amp_http_session

\* mutant of AMP_Relogin: a failed re-login is tried again
AMP_Relogin_retry(ok) ==
    /\ amp_pc = "relogin"
    /\ ok => amp_panel # "down"
    /\ amp_authenticated' = ok
    /\ amp_pc' = IF ok THEN "sleep" ELSE "relogin"
    /\ amp_yield' = <<>>
    /\ UNCHANGED <<seen_messages, amp_updates, amp_delivered>>
    /\ op' = IF ok THEN "relogin_true" ELSE "relogin_false"
    /\ AMPLoopFrame
    /\ amp_http_session' = get_session

\* mutant of AMP_Relogin: after a failed re-login the loop goes on to sleep
AMP_Relogin_continue(ok) ==
    /\ amp_pc = "relogin"
    /\ ok => amp_panel # "down"
    /\ amp_authenticated' = ok
    /\ amp_pc' = "sleep"
    /\ amp_yield' = <<>>
    /\ UNCHANGED <<seen_messages, amp_updates, amp_delivered>>
    /\ op' = IF ok THEN "relogin_true" ELSE "relogin_false"
    /\ AMPLoopFrame
    /\ amp_http_session' = get_session

\* mutant of AMP_Relogin: a successful re-login clears the cache
AMP_Relogin_clear(ok) ==
    /\ amp_pc = "relogin"
    /\ ok => amp_panel # "down"
    /\ amp_authenticated' = ok
    /\ amp_pc' = IF ok THEN "sleep" ELSE "done"
    /\ amp_yield' = <<>>
    /\ seen_messages' = IF ok THEN <<>> ELSE seen_messages
    /\ amp_delivered' = IF ok THEN {} ELSE amp_delivered
    /\ UNCHANGED amp_updates
    /\ op' = IF ok THEN "relogin_true" ELSE "relogin_false"
    /\ AMPLoopFrame
    /\ amp_http_session' = get_session

\* except AMPAPIError: api.login() returns (ok), or raises and the loop breaks
AMP_Relogin(ok) ==
    /\ amp_pc = "relogin"
    /\ ok => amp_panel # "down"
    /\ amp_authenticated' = ok
    /\ amp_pc' = IF ok THEN "sleep" ELSE "done"
    /\ amp_yield' = <<>>
    /\ UNCHANGED <<seen_messages, amp_updates, amp_delivered>>
    /\ op' = IF ok THEN "relogin_true" ELSE "relogin_false"
    /\ AMPLoopFrame
    /\ amp_http_session' = get_session

\* await asyncio.sleep(self._poll_interval)
AMP_Sleep ==
    /\ amp_pc = "sleep"
    /\ amp_pc' = "loop"
    /\ amp_yield' = <<>>
    /\ UNCHANGED <<amp_authenticated, seen_messages, amp_updates, amp_delivered>>
    /\ op' = "sleep"
    /\ AMPLoopFrame
    /\ UNCHANGED amp_http_session

\* the panel degrades for good: first GetUpdates fails on every call
\* ("updates_down"), then Core/Login fails as well ("down")
AMP_PanelDegrades ==
    /\ amp_panel # "down"
    /\ amp_panel' \in IF amp_panel = "up" THEN {"updates_down", "down"} ELSE {"down"}
    /\ amp_yield' = <<>>
    /\ op' = "panel"
    /\ UNCHANGED <<amp_polling, amp_shutdown_requested, amp_authenticated,
                   seen_messages, amp_pc, amp_updates, amp_delivered>>
    /\ AMPFrame
    /\ UNCHANGED amp_http_session

AMPLoopStep ==
    \/ AMP_LoopExit
    \/ \E entries \in PollResponses : AMP_GetUpdates(entries)
    \/ AMP_GetUpdatesFails
    \/ AMP_ProcessEntry
    \/ AMP_EntriesDone
    \/ \E ok \in BOOLEAN : AMP_Relogin(ok)
    \/ AMP_Sleep

InitAMP ==
    /\ InitGameStateManager
    /\ InitOAMessageProcessor
    /\ InitOAGameAdapter
    /\ InitAMPGameAdapter
    /\ InitExt
    /\ InitHistory
    /\ DefaultSettings

NextAMP ==
    \/ AMPLoopStep
    \/ AMP_ReadMessages
    \/ \E ok \in BOOLEAN : AMP_Connect(ok)
    \/ \E cancelled \in BOOLEAN : AMP_Disconnect(cancelled)
    \/ AMP_RequestShutdown
    \/ AMP_StopServer
    \/ AMP_PanelDegrades

SpecAMP == InitAMP /\ [][NextAMP]_vars

\* the poll loop is a coroutine of a running event loop: it keeps being
\* scheduled; the lifecycle calls and the panel are under no obligation
FairSpecAMP == SpecAMP /\ WF_vars(AMPLoopStep)

(***************************************************************************)
(* C1: handle_match_shutdown_detected called in RUNNING adds exactly 1 to  *)
(* round_count, reports experiment_finished iff the incremented            *)
(* round_count >= max_rounds and round_completed (with the rotate_latency  *)
(* action) otherwise; the two flags are never both true, in any state and  *)
(* after any call.                                                         *)
(***************************************************************************)
C1_MatchShutdownResult ==
    /\ [](~(result.experiment_finished /\ result.round_completed))
    /\ [][ (op' = "handle_match_shutdown_detected" /\ current_state = "RUNNING") =>
             /\ round_count' = round_count + 1
             /\ result'.experiment_finished = (round_count' >= max_rounds)
             /\ result'.round_completed = ~(round_count' >= max_rounds)
             /\ result'.round_completed => result'.actions = <<"rotate_latency">>
             /\ result'.experiment_finished => result'.actions = <<>>
         ]_vars

\* the experiment finishes on a call in RUNNING after an earlier round completed
C1_Witness ==
    /\ op = "handle_match_shutdown_detected"
    /\ current_state = "RUNNING"
    /\ result.experiment_finished
    /\ round_count = max_rounds
    /\ round_count >= 3

(***************************************************************************)
(* Steps of the pipeline, for the properties below.                        *)
(***************************************************************************)
\* a step that is one process_server_message call: an iteration of
\* run_server_loop, or a direct call (no flag of another thread changes)
DispatchStep ==
    \/ oa_pc = "read" /\ oa_pc' = "check"
    \/ /\ oa_pc' = oa_pc
       /\ shutdown_event' = shutdown_event
       /\ async_loop' = async_loop
       /\ process' = process

\* a step that processes a line parsed as SERVER_SHUTDOWN with event e
ShutdownStep(e) ==
    /\ DispatchStep
    /\ last'.message_type = "SERVER_SHUTDOWN"
    /\ last'.event = e

(***************************************************************************)
(* C2: in the event pipeline round_count never decreases; a step that      *)
(* changes it adds exactly 1 and is a match-end shutdown handled in        *)
(* RUNNING; a match-end shutdown handled in WAITING or WARMUP leaves it    *)
(* unchanged and reports neither round_completed nor experiment_finished.  *)
(***************************************************************************)
C2_RoundCountMonotone ==
    [][ /\ round_count' >= round_count
        /\ round_count' # round_count =>
              /\ round_count' = round_count + 1
              /\ current_state = "RUNNING"
              /\ ShutdownStep("match_end")
        /\ (ShutdownStep("match_end") /\ current_state \in {"WAITING", "WARMUP"}) =>
              /\ round_count' = round_count
              /\ ~result'.round_completed
              /\ ~result'.experiment_finished
      ]_vars

\* a match-end shutdown handled outside RUNNING, after an earlier round was counted
C2_Witness ==
    /\ last.message_type = "SERVER_SHUTDOWN"
    /\ last.event = "match_end"
    /\ result = NoResult
    /\ round_count = 2

(***************************************************************************)
(* C3 as stated: after every shutdown-strategy invocation (match or        *)
(* warmup, player threshold met or not) the round state is WAITING.        *)
(***************************************************************************)
C3_AlwaysWaitingAfterStrategy ==
    [][ (ShutdownStep("match_end") \/ ShutdownStep("warmup_end")) =>
            current_state' = "WAITING" ]_vars

(***************************************************************************)
(* C3 amended: the round state is WAITING after every                      *)
(* MatchShutdownStrategy.handle and after every                            *)
(* WarmupShutdownStrategy.handle run with the player threshold met; with   *)
(* the threshold unmet the warmup strategy returns early and leaves the    *)
(* round state as it was.                                                  *)
(***************************************************************************)
C3_WaitingAfterStrategy ==
    [][ /\ ShutdownStep("match_end") => current_state' = "WAITING"
        /\ (ShutdownStep("warmup_end") /\ ~insufficient_humans) =>
              current_state' = "WAITING"
        /\ (ShutdownStep("warmup_end") /\ insufficient_humans) =>
              current_state' = current_state
      ]_vars

\* the warmup strategy has just returned early, leaving the state WARMUP
C3_Witness ==
    /\ last.message_type = "SERVER_SHUTDOWN"
    /\ last.event = "warmup_end"
    /\ insufficient_humans
    /\ calls = <<"set_next_round_with_warmup_phase">>
    /\ current_state = "WARMUP"

(***************************************************************************)
(* C4: a "ShutdownGame:" line is emitted as SERVER_SHUTDOWN with event     *)
(* match_end iff a fraglimit/timelimit Exit line was processed after the   *)
(* most recent "Warmup:" or "ShutdownGame:" line (or since start), and     *)
(* with event warmup_end otherwise.  The recent-fraglimit flag is false    *)
(* right after every warmup-start and shutdown event (so whenever a        *)
(* strategy has just run), and one GameEnd classifies at most one later    *)
(* shutdown as match_end.                                                  *)
(***************************************************************************)
C4_ShutdownClassification ==
    /\ [][ (ShutdownStep("match_end") => exit_pending /\ ~exit_pending')
           /\ (ShutdownStep("warmup_end") => ~exit_pending /\ ~exit_pending')
           /\ (DispatchStep /\ exit_pending /\ ~exit_pending'
                 /\ last'.message_type # "WARMUP_START") => ShutdownStep("match_end")
         ]_vars
    /\ [](recent_fraglimit_hit = exit_pending)
    /\ [](last.message_type \in {"SERVER_SHUTDOWN", "WARMUP_START"} =>
              ~recent_fraglimit_hit)

\* a shutdown has just been classified as match_end and the flag is cleared
C4_Witness ==
    /\ last.message_type = "SERVER_SHUTDOWN"
    /\ last.event = "match_end"
    /\ ~recent_fraglimit_hit
    /\ current_state = "WAITING"

(***************************************************************************)
(* The AMP poll loop: telling its steps apart.                             *)
(***************************************************************************)
\* the step took the entry at the head of amp_updates through the dedup check
ProcessEntryStep ==
    /\ amp_pc = "entries"
    /\ amp_updates # <<>>
    /\ amp_updates' = Tail(amp_updates)
    /\ op' = "process_entry"

NextEntry == Head(amp_updates)

(***************************************************************************)
(* C5 (as stated): an entry whose key is in the dedup cache yields no      *)
(* event, and an entry delivered twice in one poll or in two polls of the  *)
(* same read_messages run yields its events exactly once: at its first     *)
(* delivery it yields its non-blank lines, at every later delivery of the  *)
(* run it yields nothing.                                                  *)
(***************************************************************************)
C5_ExactlyOncePerRun ==
    [][ ProcessEntryStep =>
          /\ InCache(seen_messages, msg_key(NextEntry)) => amp_yield' = <<>>
          /\ amp_yield' = IF msg_key(NextEntry) \in amp_delivered
                          THEN <<>>
                          ELSE SelectSeq(NextEntry.lines, NonBlank)
      ]_vars

(***************************************************************************)
(* C5 (amended): an entry whose key is in the dedup cache yields no event  *)
(* and leaves the cache as it is; an entry whose key is not in the cache   *)
(* yields its non-blank lines and its key is in the cache afterwards.  A   *)
(* key delivered since the cache was last cleared is missing from the      *)
(* cache only when the cache is full, that is after an eviction: so a      *)
(* redelivered entry yields nothing as long as its key was not evicted.    *)
(***************************************************************************)
C5_DedupWhileCached ==
    /\ [][ ProcessEntryStep =>
             /\ InCache(seen_messages, msg_key(NextEntry))
                  => amp_yield' = <<>> /\ seen_messages' = seen_messages
             /\ ~InCache(seen_messages, msg_key(NextEntry))
                  => amp_yield' = SelectSeq(NextEntry.lines, NonBlank)
             /\ InCache(seen_messages', msg_key(NextEntry))
         ]_vars
    /\ [](\A k \in amp_delivered :
             InCache(seen_messages, k) \/ Len(seen_messages) = MaxSeenCache)
    /\ [](\A i \in 1..Len(seen_messages) : seen_messages[i] \in amp_delivered)

\* an entry has just been suppressed: it went through the dedup check, has
\* non-blank lines, and yielded nothing
C5_Witness ==
    /\ op = "process_entry"
    /\ amp_yield = <<>>
    /\ seen_messages # <<>>
    /\ \A e \in ConsoleEntries : SelectSeq(e.lines, NonBlank) # <<>>

(***************************************************************************)
(* C6: the dedup cache never holds more than its capacity (MaxSeenCache    *)
(* here, 1000 in the source) and never holds a key twice; inserting a new  *)
(* key into a full cache removes exactly the oldest-inserted key and keeps *)
(* the others in order; a duplicate hit changes nothing, so it does not    *)
(* refresh the position of its key.                                        *)
(***************************************************************************)
C6_CacheBoundedFIFO ==
    /\ [](Len(seen_messages) <= MaxSeenCache)
    /\ [](\A i, j \in 1..Len(seen_messages) :
             seen_messages[i] = seen_messages[j] => i = j)
    /\ [][ ProcessEntryStep =>
             IF InCache(seen_messages, msg_key(NextEntry))
             THEN seen_messages' = seen_messages
             ELSE IF Len(seen_messages) = MaxSeenCache
             THEN seen_messages' = Append(Tail(seen_messages), msg_key(NextEntry))
             ELSE seen_messages' = Append(seen_messages, msg_key(NextEntry))
         ]_vars

\* a new key has just been inserted into a full cache: more keys were
\* delivered than the cache holds, and the newest of them is the last key
C6_Witness ==
    /\ op = "process_entry"
    /\ amp_yield # <<>>
    /\ Len(seen_messages) = MaxSeenCache
    /\ Cardinality(amp_delivered) > MaxSeenCache

(***************************************************************************)
(* C7 (as stated): the dedup cache is empty after connect() returned true  *)
(* and after a successful re-login inside the poll loop.                   *)
(***************************************************************************)
C7_ClearedOnReconnect ==
    [][ /\ op' = "connect_true" => seen_messages' = <<>>
        /\ op' = "relogin_true" => seen_messages' = <<>>
      ]_vars

(***************************************************************************)
(* C7 (amended): the dedup cache is cleared when read_messages starts and  *)
(* by disconnect() when the client is authenticated; connect(), whatever   *)
(* it returns, and a re-login inside the poll loop leave it as it is, as   *)
(* does disconnect() when the client is not authenticated.                 *)
(***************************************************************************)
C7_ClearedOnReadAndDisconnect ==
    [][ /\ op' = "read_messages" => seen_messages' = <<>>
        /\ (op' = "disconnect" /\ amp_authenticated) => seen_messages' = <<>>
        /\ (op' = "disconnect" /\ ~amp_authenticated) => seen_messages' = seen_messages
        /\ op' \in {"connect_true", "connect_false", "relogin_true", "relogin_false"}
             => seen_messages' = seen_messages
      ]_vars

\* connect() has just returned true and the cache still holds keys
C7_Witness ==
    /\ op = "connect_true"
    /\ amp_authenticated
    /\ seen_messages # <<>>

(***************************************************************************)
(* C8: once shutdown has been requested while run_server_loop is running,  *)
(* the loop eventually terminates, also when the child process writes      *)
(* nothing more.  (OpenArena adapter; the loop is blocked in readline()    *)
(* while the child is alive and silent.)                                   *)
(***************************************************************************)
C8_ShutdownTerminatesLoop ==
    (shutdown_event /\ oa_pc \in {"check", "read"}) ~> (oa_pc = "done")

\* the same for the AMP adapter: once shutdown has been requested while
\* read_messages is running, the generator eventually ends
AMP_ShutdownTerminatesLoop ==
    (amp_shutdown_requested /\ AMPRunning) ~> (amp_pc = "done")

(***************************************************************************)
(* C9: the re-login position of read_messages is entered only by a failed  *)
(* GetUpdates call and left by the one login attempt made there: a failed  *)
(* attempt ends the generator, a successful one leads to the sleep, after   *)
(* which the loop test follows and, when it passes, the next GetUpdates     *)
(* call.  Once the generator has ended, no entry is fetched and no event is *)
(* yielded until read_messages is started again.                            *)
(***************************************************************************)
C9_OneReloginPerFailure ==
    [][ /\ (amp_pc' = "relogin" /\ amp_pc # "relogin")
             => /\ amp_pc = "loop"
                /\ read_messages_condition
                /\ op' = "get_updates_failed"
        /\ (amp_pc = "relogin" /\ op' \notin {"request_shutdown", "stop_server",
                                                 "disconnect", "panel"})
             => \/ op' = "relogin_true" /\ amp_authenticated' /\ amp_pc' = "sleep"
                \/ op' = "relogin_false" /\ ~amp_authenticated' /\ amp_pc' = "done"
        /\ op' = "relogin_false" => amp_pc' = "done"
        /\ op' = "sleep" => amp_pc = "sleep" /\ amp_pc' = "loop"
        /\ (amp_pc = "loop" /\ read_messages_condition
              /\ op' \notin {"request_shutdown", "stop_server", "disconnect", "panel"})
             => op' \in {"get_updates", "get_updates_failed"}
        /\ amp_pc = "done"
             => /\ amp_yield' = <<>>
                /\ amp_updates' = <<>>
                /\ amp_pc' = "done" \/ op' = "read_messages"
      ]_vars

\* a re-login has just failed and ended the generator
C9_Witness ==
    /\ op = "relogin_false"
    /\ amp_pc = "done"
    /\ ~amp_authenticated

(***************************************************************************)
(* C10 (as stated): if from some point on every GetUpdates call fails,     *)
(* read_messages eventually terminates.                                    *)
(***************************************************************************)
C10_TerminatesWhenUpdatesFail ==
    (amp_panel # "up" /\ AMPRunning) ~> (amp_pc = "done")

(***************************************************************************)
(* C10 (amended): if from some point on every GetUpdates call and every    *)
(* re-login fail, read_messages eventually terminates.                     *)
(***************************************************************************)
C10_TerminatesWhenLoginFailsToo ==
    (amp_panel = "down" /\ AMPRunning) ~> (amp_pc = "done")

\* with the panel down for good, a failed re-login has ended the generator
C10_Witness ==
    /\ amp_panel = "down"
    /\ op = "relogin_false"
    /\ amp_pc = "done"
    /\ amp_polling
    /\ ~amp_shutdown_requested

(***************************************************************************)
(* C11: when the child process has exited and its error stream is at       *)
(* end-of-file, run_server_loop eventually terminates even though no       *)
(* shutdown was requested.  (Every readline() then returns "" at once and  *)
(* the loop tests only the shutdown flag.)                                 *)
(***************************************************************************)
C11_EOFTerminatesLoop ==
    <>[](process = "exited" /\ oa_pc # "idle") => <>(oa_pc = "done")

(***************************************************************************)
(* run_async statement by statement: the ingestion thread tests            *)
(* "self._async_loop and not self._shutdown_event.is_set()" and then calls *)
(* asyncio.run_coroutine_threadsafe, while another thread calls            *)
(* request_shutdown, stop_server / disconnect, start_server / connect or   *)
(* set_async_loop between the two statements.                              *)
(***************************************************************************)
\* the coroutines the adapter hands to run_async
Coroutines ==
    {"stop_match_recording", "start_match_recording", "add_bots_to_server_async",
     "disconnect_client", "connect_single_client_immediately", "kick_client"}

\* what the threads of this specification leave alone
RAFrame ==
    UNCHANGED <<gsmVars, procVars, histVars, cfgVars, insufficient_humans,
                client_type_map, human_count, oa_pc, last, sent, calls,
                bots_added, bot_addition_in_progress, ampVars, scVars, nmVars, stVars, mpVars, ipVars, gmVars,
                op>>

\* run_async(coro): the if statement
RA_Test(coro) ==
    /\ ra_pc = "idle"
    /\ IF run_async(coro, async_loop, shutdown_event) # <<>>
       THEN ra_pc' = "submit" /\ ra_coro' = coro
       ELSE ra_pc' = "idle" /\ ra_coro' = "none"
    /\ scheduled' = <<>>
    /\ UNCHANGED ra_submitted
    /\ UNCHANGED <<process, orphaned, shutdown_event, async_loop>>
    /\ RAFrame

\* run_async(coro): asyncio.run_coroutine_threadsafe(coro, self._async_loop)
RA_Submit ==
    /\ ra_pc = "submit"
    /\ scheduled' = <<ra_coro>>
    /\ ra_submitted' = ra_submitted \cup {ra_coro}
    /\ ra_pc' = "idle"
    /\ ra_coro' = "none"
    /\ UNCHANGED <<process, orphaned, shutdown_event, async_loop>>
    /\ RAFrame

NextRunAsync ==
    \/ \E coro \in Coroutines : RA_Test(coro)
    \/ RA_Submit
    \/ /\ \/ OA_RequestShutdown
          \/ OA_StopServer
          \/ OA_StartServer
          \/ OA_SetAsyncLoop
       /\ UNCHANGED <<ampVars, extVars>>

SpecRunAsync == InitOALoop /\ [][NextRunAsync]_vars

(***************************************************************************)
(* C12: no coroutine is submitted to the async loop once the shutdown flag *)
(* is set, in every interleaving of run_async with the threads that set    *)
(* the flag; and nothing is submitted when no async loop was provided.     *)
(***************************************************************************)
C12_NoSubmitAfterShutdown ==
    [][ (ra_pc = "submit" /\ ra_pc' = "idle" /\ scheduled' # <<>>)
          => (~shutdown_event /\ async_loop) ]_vars

(***************************************************************************)
(* GameAdapter.send_command_sync: called from a context with or without a  *)
(* running event loop; the running loop executes what was handed to it.    *)
(***************************************************************************)
Commands == {"status", "killserver"}

\* mutant of send_command_sync_done: without a running loop nothing is run
send_command_sync_done_dropped(done, cmd, loop_running) == done

\* the completed commands when send_command_sync(cmd) returns:
\* asyncio.run(self.send_command(command)) in the except RuntimeError branch
send_command_sync_done(done, cmd, loop_running) ==
    IF loop_running THEN done ELSE Append(done, cmd)

\* the coroutines pending on the running loop when send_command_sync(cmd)
\* returns: asyncio.run_coroutine_threadsafe(self.send_command(command), loop)
send_command_sync_pending(pending, cmd, loop_running) ==
    IF loop_running THEN Append(pending, cmd) ELSE pending

SCFrame ==
    UNCHANGED <<gsmVars, procVars, oaVars, cfgVars, histVars, ampVars, raVars,
                nmVars, stVars, mpVars, ipVars, gmVars>>

\* send_command_sync(cmd); loop_running: asyncio.get_running_loop() returns
SC_SendCommandSync(cmd, loop_running) ==
    /\ Len(sc_invoked) < MaxCommands
    /\ sc_invoked' = Append(sc_invoked, cmd)
    /\ sc_pending' = send_command_sync_pending(sc_pending, cmd, loop_running)
    /\ sc_done' = send_command_sync_done(sc_done, cmd, loop_running)
    /\ sc_result' = "None"
    /\ sc_loop_running' = loop_running
    /\ op' = "send_command_sync"
    /\ SCFrame

\* the running loop executes the oldest coroutine handed to it
SC_LoopRunsCoroutine ==
    /\ sc_pending # <<>>
    /\ sc_done' = Append(sc_done, Head(sc_pending))
    /\ sc_pending' = Tail(sc_pending)
    /\ op' = "loop_runs_coroutine"
    /\ UNCHANGED <<sc_invoked, sc_result, sc_loop_running>>
    /\ SCFrame

NextSync ==
    \/ \E cmd \in Commands, loop_running \in BOOLEAN :
          SC_SendCommandSync(cmd, loop_running)
    \/ SC_LoopRunsCoroutine

SpecSync == InitOALoop /\ [][NextSync]_vars

(***************************************************************************)
(* C13: every send_command_sync(cmd) call invokes send_command(cmd)        *)
(* exactly once and returns None; with a running loop in the calling       *)
(* context the coroutine is handed to that loop and is still pending when  *)
(* the call returns; without one it has completed when the call returns.   *)
(***************************************************************************)
C13_SendCommandSyncOnce ==
    [][ sc_invoked' # sc_invoked =>
          LET cmd == sc_invoked'[Len(sc_invoked')] IN
             /\ sc_invoked' = Append(sc_invoked, cmd)
             /\ sc_result' = "None"
             /\ IF sc_loop_running'
                THEN sc_pending' = Append(sc_pending, cmd) /\ sc_done' = sc_done
                ELSE sc_done' = Append(sc_done, cmd) /\ sc_pending' = sc_pending
      ]_vars

\* both conditions have happened: a call without a running loop completed
\* its command, and a call with one has just returned with it still pending
C13_Witness ==
    /\ op = "send_command_sync"
    /\ sc_result = "None"
    /\ sc_loop_running
    /\ sc_pending # <<>>
    /\ sc_done # <<>>
    /\ Len(sc_invoked) = Len(sc_pending) + Len(sc_done)

(***************************************************************************)
(* NetworkManager: the client maps, written by _process_discovered_client  *)
(* and _on_client_disconnect on the thread of run_server_loop, and the     *)
(* coroutine connect_single_client_immediately on the async loop.          *)
(***************************************************************************)
\* settings.latencies (LATENCIES unset)
latencies == <<200>>

BOT_NAMES ==
    {"Angelyss", "Arachna", "Major", "Sarge", "Skelebot", "Merman", "Beret", "Kyonshi"}

\* names in the status rows of human clients
HumanNames == {"Alice", "Bob"}

\* the rows of a status block: client id, address column, name
StatusRows ==
    {r \in [client_id : ClientIds, ip : IPs \cup {"bot"}, name : HumanNames \cup {"Sarge"}] :
        (r.ip = "bot") = (r.name \in BOT_NAMES)}

\* len(self._network_manager.ip_latency_map)
LenMap(ilm) == Cardinality({i \in IPs : ilm[i] # -1})

\* settings.latencies[len(ip_latency_map) % len(settings.latencies)]
next_latency(ilm) == latencies[(LenMap(ilm) % Len(latencies)) + 1]

\* add_client: client_name_map afterwards
add_client_name_map(cnm, cid, name) == [cnm EXCEPT ![cid] = name]

\* add_client: client_ip_map afterwards
add_client_ip_map(cim, cid, ip, is_bot) ==
    IF is_bot THEN cim ELSE [cim EXCEPT ![cid] = ip]

\* add_client: ip_latency_map afterwards
add_client_ip_latency_map(ilm, ip, latency, is_bot) ==
    IF is_bot THEN ilm
    ELSE IF ilm[ip] = -1 THEN [ilm EXCEPT ![ip] = latency] ELSE ilm

\* add_client: obs_status_map afterwards
add_client_obs_status_map(osm, ilm, ip, is_bot) ==
    IF is_bot THEN osm
    ELSE IF ilm[ip] = -1 THEN [osm EXCEPT ![ip] = "False"] ELSE osm

\* remove_client: the address is still used by another client
ip_still_in_use(cim, cid) ==
    \E c \in ClientIds \ {cid} : cim[c] = cim[cid]

\* remove_client: client_ip_map afterwards
remove_client_ip_map(cim, cid) == [cim EXCEPT ![cid] = "none"]

\* remove_client: ip_latency_map afterwards
remove_client_ip_latency_map(ilm, cim, cid) ==
    IF cim[cid] # "none" /\ ~ip_still_in_use(cim, cid)
    THEN [ilm EXCEPT ![cim[cid]] = -1]
    ELSE ilm

\* remove_client: obs_status_map afterwards
remove_client_obs_status_map(osm, cim, cid) ==
    IF cim[cid] # "none" /\ ~ip_still_in_use(cim, cid)
    THEN [osm EXCEPT ![cim[cid]] = "absent"]
    ELSE osm

\* mutant of remove_client_name_map: the name stays
remove_client_name_map_kept(cnm, cid) == cnm

\* remove_client: client_name_map afterwards
remove_client_name_map(cnm, cid) == [cnm EXCEPT ![cid] = "none"]

\* set_obs_status: the test "ip in self.ip_latency_map"
set_obs_status_known(ilm, ip) == ilm[ip] # -1

\* set_obs_status: the assignment
set_obs_status_map(osm, ip, connected) ==
    [osm EXCEPT ![ip] = IF connected THEN "True" ELSE "False"]

\* get_client_id_by_ip(ip) is not None
get_client_id_by_ip_found(cim, ip) == \E c \in ClientIds : cim[c] = ip

\* run_server_loop processes one row of a status block
NM_StatusRow(r) ==
    /\ r.ip # "bot" /\ client_type_map[r.client_id] = "NONE"
          => obs_waiting[r.ip] < MaxConnectTasks
    /\ ProcessStatusRow(r.client_id, r.ip = "bot")
    /\ IF client_type_map[r.client_id] # "NONE"
       THEN UNCHANGED <<client_ip_map, client_name_map, ip_latency_map,
                        obs_status_map, obs_waiting>>
       ELSE /\ client_name_map' = add_client_name_map(client_name_map, r.client_id, r.name)
            /\ client_ip_map' =
                  add_client_ip_map(client_ip_map, r.client_id, r.ip, r.ip = "bot")
            /\ ip_latency_map' =
                  add_client_ip_latency_map(ip_latency_map, r.ip,
                                            next_latency(ip_latency_map), r.ip = "bot")
            /\ obs_status_map' =
                  add_client_obs_status_map(obs_status_map, ip_latency_map, r.ip,
                                            r.ip = "bot")
            /\ obs_waiting' =
                  IF r.ip # "bot"
                     /\ run_async("connect_single_client_immediately",
                                  async_loop, shutdown_event) # <<>>
                  THEN [obs_waiting EXCEPT ![r.ip] = @ + 1]
                  ELSE obs_waiting
    /\ IF client_type_map[r.client_id] # "NONE"
       THEN UNCHANGED <<bot_count, player_count>>
       ELSE /\ bot_count' = add_client_bot_count(client_type_map, bot_count,
                                                 r.client_id, r.ip = "bot")
            /\ player_count' = human_count' + bot_count'
    /\ UNCHANGED <<obs_cur, oa_pc, ampVars, raVars, scVars, stVars, mpVars, ipVars, gmVars>>

\* run_server_loop processes the line "ClientDisconnect: N"
NM_ClientDisconnect(l) ==
    /\ MatchClientDisconnect(Strip(l))
    /\ ProcessServerMessage(l)
    /\ LET cid == MatchedClientId(Strip(l)) IN
          /\ client_ip_map' = remove_client_ip_map(client_ip_map, cid)
          /\ ip_latency_map' =
                remove_client_ip_latency_map(ip_latency_map, client_ip_map, cid)
          /\ obs_status_map' =
                remove_client_obs_status_map(obs_status_map, client_ip_map, cid)
          /\ client_name_map' = remove_client_name_map(client_name_map, cid)
          /\ bot_count' = remove_client_bot_count(client_type_map, cid)
          /\ player_count' = human_count' + bot_count'
    /\ UNCHANGED <<obs_waiting, obs_cur, oa_pc, ampVars, raVars, scVars, stVars, mpVars, ipVars, gmVars>>

\* what a step of the connect coroutine leaves alone
OBSFrame ==
    UNCHANGED <<gsmVars, procVars, cfgVars, histVars, ampVars, raVars, scVars, stVars, mpVars, ipVars, gmVars,
                process, orphaned, shutdown_event, async_loop, insufficient_humans,
                client_type_map, human_count, oa_pc, last, calls, bots_added,
                bot_addition_in_progress, client_ip_map, client_name_map,
                ip_latency_map, bot_count, player_count>>

\* connect_single_client_immediately after set_obs_status: the chat line,
\* and on failure _handle_connection_failure -> _kick_client_by_ip
OBS_AfterSetObsStatus ==
    /\ obs_cur' = NoTask
    /\ IF obs_cur.connected
       THEN /\ sent' = <<"say OBS connected">>
            /\ UNCHANGED scheduled
       ELSE /\ sent' = <<"say OBS connection failed">>
            /\ scheduled' = IF get_client_id_by_ip_found(client_ip_map, obs_cur.ip)
                            THEN run_async("kick_client", async_loop, shutdown_event)
                            ELSE <<>>

\* await self.obs_manager.connect_client_obs(client_ip) returns
OBS_ConnectReturns(ip, connected) ==
    /\ obs_cur = NoTask
    /\ obs_waiting[ip] > 0
    /\ obs_waiting' = [obs_waiting EXCEPT ![ip] = @ - 1]
    /\ obs_cur' = [ip |-> ip, connected |-> connected, pc |-> "test"]
    /\ op' = "connect_client_obs_returns"
    /\ UNCHANGED <<obs_status_map, sent, scheduled>>
    /\ OBSFrame

\* client_tracker.set_obs_status(client_ip, connected): the if statement
OBS_SetObsStatusTest ==
    /\ obs_cur.pc = "test"
    /\ IF set_obs_status_known(ip_latency_map, obs_cur.ip)
       THEN /\ obs_cur' = [obs_cur EXCEPT !.pc = "write"]
            /\ UNCHANGED <<sent, scheduled>>
       ELSE OBS_AfterSetObsStatus
    /\ op' = "set_obs_status_test"
    /\ UNCHANGED <<obs_status_map, obs_waiting>>
    /\ OBSFrame

\* client_tracker.set_obs_status(client_ip, connected): the assignment, and
\* the rest of the coroutine
OBS_SetObsStatusWrite ==
    /\ obs_cur.pc = "write"
    /\ obs_status_map' = set_obs_status_map(obs_status_map, obs_cur.ip, obs_cur.connected)
    /\ OBS_AfterSetObsStatus
    /\ op' = "set_obs_status_write"
    /\ UNCHANGED obs_waiting
    /\ OBSFrame

NextClients ==
    \/ \E r \in StatusRows : NM_StatusRow(r)
    \/ \E l \in Lines : NM_ClientDisconnect(l)
    \/ \E ip \in IPs, connected \in BOOLEAN : OBS_ConnectReturns(ip, connected)
    \/ OBS_SetObsStatusTest
    \/ OBS_SetObsStatusWrite
    \/ /\ OA_SetAsyncLoop
       /\ UNCHANGED <<ampVars, extVars>>

SpecClients == InitOALoop /\ [][NextClients]_vars

\* a step of a coroutine running on the async loop
AsyncContextStep == obs_cur' # obs_cur

(***************************************************************************)
(* C14: no step of a coroutine on the async loop writes the client maps of *)
(* NetworkManager or the round state; only the thread of run_server_loop   *)
(* does.                                                                   *)
(***************************************************************************)
C14_OnlyIngestionWrites ==
    [][ AsyncContextStep =>
          UNCHANGED <<client_type_map, client_ip_map, client_name_map,
                      ip_latency_map, obs_status_map, human_count,
                      current_state, round_count>>
      ]_vars

(***************************************************************************)
(* C20: when the adapter processes the line "ClientDisconnect: N" the      *)
(* parsed message is one CLIENT_DISCONNECT event with client_id N and the  *)
(* handler calls remove_client(N) once; afterwards N has no type, name or  *)
(* address mapping, and every other client keeps its type, name, address   *)
(* and the latency and OBS status of its address.                          *)
(***************************************************************************)
C20_DisconnectRemovesClient ==
    [][ \A n \in ClientIds :
          NM_ClientDisconnect(IF n = 0 THEN "ClientDisconnect: 0"
                                       ELSE "ClientDisconnect: 1") =>
             /\ last'.message_type = "CLIENT_DISCONNECT"
             /\ last'.client_id = n
             /\ calls' = <<"remove_client">>
             /\ client_type_map'[n] = "NONE"
             /\ client_name_map'[n] = "none"
             /\ client_ip_map'[n] = "none"
             /\ human_count' = CountType(client_type_map', "HUMAN")
             /\ \A c \in ClientIds \ {n} :
                   /\ client_type_map'[c] = client_type_map[c]
                   /\ client_name_map'[c] = client_name_map[c]
                   /\ client_ip_map'[c] = client_ip_map[c]
                   /\ client_ip_map[c] # "none" =>
                         /\ ip_latency_map'[client_ip_map[c]] = ip_latency_map[client_ip_map[c]]
                         /\ obs_status_map'[client_ip_map[c]] = obs_status_map[client_ip_map[c]]
      ]_vars

\* a tracked human client with a connected OBS has just been removed while
\* another human client at the same address is still tracked
C20_Witness ==
    /\ last.message_type = "CLIENT_DISCONNECT"
    /\ calls = <<"remove_client">>
    /\ scheduled = <<"disconnect_client">>
    /\ client_type_map[last.client_id] = "NONE"
    /\ client_name_map[last.client_id] = "none"
    /\ \E c \in ClientIds \ {last.client_id} :
          /\ client_type_map[c] = "HUMAN"
          /\ client_name_map[c] \in HumanNames
          /\ client_ip_map[c] \in IPs
          /\ ip_latency_map[client_ip_map[c]] = 200
          /\ obs_status_map[client_ip_map[c]] = "True"

(***************************************************************************)
(* Status blocks.  A console line is a record: its kind, and for a client  *)
(* row the columns the parsers read (client id, name, address).            *)
(***************************************************************************)
\* the address column: "bot", or "a.b.c.d:port" by its octets
NoAddress == [bot |-> FALSE, octets |-> <<>>]

Line(kind) == [kind |-> kind, client_id |-> -1, name |-> "", address |-> NoAddress]

Row(cid, name, address) ==
    [kind |-> "row", client_id |-> cid, name |-> name, address |-> address]

\* client rows: every name comes with one address; Sarge is a bot (address
\* column "bot", or the " BOT " column of the panel)
Rows ==
    {Row(cid, "Alice", [bot |-> FALSE, octets |-> <<10, 0, 0, 1>>]) : cid \in ClientIds}
    \cup {Row(cid, "Bob", [bot |-> FALSE, octets |-> <<10, 0, 0, 2>>]) : cid \in ClientIds}
    \cup {Row(cid, "Eve", [bot |-> FALSE, octets |-> <<10, 0, 0, 999>>]) : cid \in ClientIds}
    \cup {Row(cid, "Sarge", [bot |-> TRUE, octets |-> <<>>]) : cid \in ClientIds}

NoClient == [client_id |-> -1, name |-> "", ip |-> <<>>, type |-> "NONE"]

\* _is_valid_ip: four parts, each an integer in 0..255
is_valid_ip(octets) ==
    /\ Len(octets) = 4
    /\ \A i \in 1..Len(octets) : octets[i] >= 0 /\ octets[i] <= 255

\* mutant of is_valid_ip: the range of the parts is not checked
is_valid_ip_any(octets) == Len(octets) = 4

(***************************************************************************)
(* StatusParser (core/adapters/status_parser.py)                           *)
(***************************************************************************)
\* mutant of start_parsing_lines: the accumulated lines are kept
start_parsing_lines_kept(lines) == lines

\* start_parsing: _ctx.reset() and state = PARSING
start_parsing_lines(lines) == <<>>

\* add_line
add_line(lines, line) == Append(lines, line)

\* what no step of the status specification touches
StatusFrame ==
    UNCHANGED <<gsmVars, procVars, oaVars, cfgVars, histVars, ampVars, raVars,
                scVars, nmVars, transport, mpVars, ipVars, gmVars>>

\* the lines handed to a bare StatusParser
ParserLines == {Line("header"), Row(0, "Alice", [bot |-> FALSE, octets |-> <<10, 0, 0, 1>>])}

SP_start_parsing ==
    /\ transport = "parser"
    /\ sp_state' = "PARSING"
    /\ sp_lines' = start_parsing_lines(sp_lines)
    /\ sp_seen_separator' = FALSE
    /\ op' = "start_parsing"
    /\ UNCHANGED <<sp_returned, in_player_section, collected_clients, status_event,
                   st_block, st_discarded>>
    /\ StatusFrame

SP_add_line(line) ==
    /\ transport = "parser"
    /\ Len(sp_lines) < MaxBlockLines
    /\ sp_lines' = add_line(sp_lines, line)
    /\ op' = "add_line"
    /\ UNCHANGED <<sp_state, sp_seen_separator, sp_returned, in_player_section,
                   collected_clients, status_event, st_block, st_discarded>>
    /\ StatusFrame

SP_mark_separator_seen ==
    /\ transport = "parser"
    /\ sp_seen_separator' = TRUE
    /\ op' = "mark_separator_seen"
    /\ UNCHANGED <<sp_state, sp_lines, sp_returned, in_player_section,
                   collected_clients, status_event, st_block, st_discarded>>
    /\ StatusFrame

SP_complete ==
    /\ transport = "parser"
    /\ sp_returned' = sp_lines
    /\ sp_state' = "IDLE"
    /\ sp_lines' = <<>>
    /\ sp_seen_separator' = FALSE
    /\ op' = "complete"
    /\ UNCHANGED <<in_player_section, collected_clients, status_event, st_block,
                   st_discarded>>
    /\ StatusFrame

(***************************************************************************)
(* OAMessageProcessor: the status block of the line-based transport.       *)
(***************************************************************************)
\* OAStatusParser.parse_client_line (NoClient = None; ip <<>> = "bot")
parse_client_line(line) ==
    IF line.kind # "row" THEN NoClient
    ELSE IF line.address.bot
    THEN [client_id |-> line.client_id, name |-> line.name, ip |-> <<>>, type |-> "BOT"]
    ELSE IF is_valid_ip(line.address.octets)
    THEN [client_id |-> line.client_id, name |-> line.name,
          ip |-> line.address.octets, type |-> "HUMAN"]
    ELSE NoClient

HasClient(list, cid) == \E j \in 1..Len(list) : list[j].client_id = cid

RECURSIVE extract_from(_, _, _)
\* _extract_client_data_from_status: the loop, from line i on
extract_from(lines, i, client_data_list) ==
    IF i > Len(lines) THEN client_data_list
    ELSE LET client_data == parse_client_line(lines[i]) IN
         extract_from(lines, i + 1,
            IF i <= 3 THEN client_data_list
            ELSE IF client_data = NoClient THEN client_data_list
            ELSE IF HasClient(client_data_list, client_data.client_id)
            THEN client_data_list
            ELSE Append(client_data_list, client_data))

extract_client_data_from_status(lines) == extract_from(lines, 1, <<>>)

StatusUpdate(clients) ==
    [message_type |-> "STATUS_UPDATE", status_complete |-> FALSE, clients |-> clients]

StatusComplete(clients) ==
    [message_type |-> "STATUS_UPDATE", status_complete |-> TRUE, clients |-> clients]

OtherMessage(message_type) ==
    [message_type |-> message_type, status_complete |-> FALSE, clients |-> <<>>]

ParserState(state, lines, seen_separator, event) ==
    [state |-> state, lines |-> lines, seen_separator |-> seen_separator,
     event |-> event]

\* _complete_status_parsing
complete_status_parsing(lines) ==
    ParserState("IDLE", <<>>, FALSE,
                StatusComplete(extract_client_data_from_status(lines)))

\* _complete_status_parsing_and_reprocess
complete_status_parsing_and_reprocess(lines) ==
    ParserState("IDLE", <<>>, FALSE,
                IF extract_client_data_from_status(lines) # <<>>
                THEN StatusComplete(extract_client_data_from_status(lines))
                ELSE OtherMessage("UNKNOWN"))

\* _handle_status_line, after add_line made the accumulated lines `lines`
handle_status_line(line, lines, seen_separator) ==
    IF line.kind = "separator"
    THEN ParserState("PARSING", lines, TRUE, StatusUpdate(<<>>))
    ELSE IF line.kind \in {"map", "header"}
    THEN ParserState("PARSING", lines, seen_separator, StatusUpdate(<<>>))
    ELSE IF seen_separator
    THEN IF line.kind = "row"
         THEN ParserState("PARSING", lines, seen_separator,
                 IF parse_client_line(line) # NoClient
                 THEN StatusUpdate(<<parse_client_line(line)>>)
                 ELSE StatusUpdate(<<>>))
         ELSE complete_status_parsing_and_reprocess(lines)
    ELSE ParserState("PARSING", lines, seen_separator, StatusUpdate(<<>>))

\* OAMessageProcessor.process_message: the parser and the returned message
oa_process_message(line, state, lines, seen_separator) ==
    IF line.kind = "empty"
    THEN IF state = "PARSING"
         THEN complete_status_parsing(lines)
         ELSE ParserState(state, lines, seen_separator, OtherMessage("UNKNOWN"))
    ELSE IF line.kind = "marker"
    THEN ParserState(state, lines, seen_separator,
                     OtherMessage("CLIENT_DISCONNECT"))
    ELSE IF line.kind = "header"
    THEN handle_status_line(line, add_line(start_parsing_lines(lines), line),
                            FALSE)
    ELSE IF state = "PARSING"
    THEN handle_status_line(line, add_line(lines, line), seen_separator)
    ELSE ParserState(state, lines, seen_separator, OtherMessage("UNKNOWN"))

\* the lines the child process writes while a status block may be open
OAStatusLines ==
    Rows \cup {Line("header"), Line("separator"), Line("map"), Line("empty"),
               Line("text"), Line("marker")}

\* history: the lines received since the latest header
block_after(block, line, in_block_after) ==
    IF line.kind = "header" THEN <<line>>
    ELSE IF ~in_block_after THEN <<>>
    ELSE IF block = <<>> THEN <<>>
    ELSE Append(block, line)

\* history: this line is a header that cuts off a block with valid client rows
discarded_after(block, line, discarded) ==
    IF line.kind = "header"
    THEN \E i \in 1..Len(block) :
            block[i].kind = "row" /\ is_valid_ip(block[i].address.octets)
    ELSE discarded

OA_ProcessMessage(line) ==
    /\ transport = "openarena"
    /\ line.kind \in {"empty", "header"} \/ Len(st_block) < MaxBlockLines
    /\ LET p == oa_process_message(line, sp_state, sp_lines, sp_seen_separator) IN
          /\ sp_state' = p.state
          /\ sp_lines' = p.lines
          /\ sp_seen_separator' = p.seen_separator
          /\ status_event' = p.event
          /\ st_block' = block_after(st_block, line, p.state = "PARSING")
          /\ st_discarded' = discarded_after(st_block, line, st_discarded)
    /\ op' = "process_message"
    /\ UNCHANGED <<sp_returned, in_player_section, collected_clients>>
    /\ StatusFrame

(***************************************************************************)
(* AMPMessageProcessor: the status block of the poll-based transport.      *)
(***************************************************************************)
\* AMPStatusParser.parse_client_line (NoClient = None)
amp_parse_client_line(line) ==
    IF line.kind # "row" THEN NoClient
    ELSE IF line.address.bot THEN NoClient
    ELSE IF is_valid_ip(line.address.octets)
    THEN [client_id |-> line.client_id, name |-> line.name,
          ip |-> line.address.octets, type |-> "HUMAN"]
    ELSE NoClient

SectionState(in_section, clients, event) ==
    [in_player_section |-> in_section, collected_clients |-> clients, event |-> event]

\* AMPMessageProcessor.process_message: the section state and the returned message
amp_process_message(line, in_section, clients) ==
    IF line.kind = "empty"
    THEN SectionState(in_section, clients, OtherMessage("UNKNOWN"))
    ELSE IF line.kind = "header"
    THEN SectionState(TRUE, <<>>, StatusUpdate(<<>>))
    ELSE IF in_section /\ line.kind = "end"
    THEN SectionState(FALSE, <<>>, StatusComplete(clients))
    ELSE IF in_section
    THEN IF line.kind = "column_header"
         THEN SectionState(in_section, clients, StatusUpdate(<<>>))
         ELSE IF amp_parse_client_line(line) # NoClient
         THEN SectionState(in_section, Append(clients, amp_parse_client_line(line)),
                           StatusUpdate(<<amp_parse_client_line(line)>>))
         ELSE SectionState(in_section, clients, StatusUpdate(<<>>))
    ELSE SectionState(in_section, clients, OtherMessage("UNKNOWN"))

\* the console lines of the panel while a player section may be open
AMPStatusLines ==
    Rows \cup {Line("header"), Line("column_header"), Line("end"), Line("empty"),
               Line("text")}

AMP_ProcessMessage(line) ==
    /\ transport = "amp"
    /\ line.kind \in {"header", "end"} \/ Len(st_block) < MaxBlockLines
    /\ LET p == amp_process_message(line, in_player_section, collected_clients) IN
          /\ in_player_section' = p.in_player_section
          /\ collected_clients' = p.collected_clients
          /\ status_event' = p.event
          /\ st_block' = block_after(st_block, line, p.in_player_section)
          /\ st_discarded' = discarded_after(st_block, line, st_discarded)
    /\ op' = "process_message"
    /\ UNCHANGED <<sp_state, sp_lines, sp_seen_separator, sp_returned>>
    /\ StatusFrame

Transports == {"openarena", "amp", "parser"}

\* one processor of either transport, or a bare StatusParser
InitStatus ==
    /\ InitGameStateManager
    /\ InitOAMessageProcessor
    /\ InitOAGameAdapter
    /\ InitAMPGameAdapter
    /\ InitRunAsync
    /\ InitSendCommandSync
    /\ InitNetworkManager
    /\ InitStatusProcessors
    /\ InitMessageProcessor
    /\ InitGameManager
    /\ InitValidators
    /\ InitHistory
    /\ DefaultSettings
    /\ transport \in Transports

NextStatus ==
    \/ \E line \in OAStatusLines : OA_ProcessMessage(line)
    \/ \E line \in AMPStatusLines : AMP_ProcessMessage(line)
    \/ SP_start_parsing
    \/ \E line \in ParserLines : SP_add_line(line)
    \/ SP_mark_separator_seen
    \/ SP_complete

SpecStatus == InitStatus /\ [][NextStatus]_vars

(***************************************************************************)
(* C19: for every sequence of StatusParser operations, whenever the parser *)
(* is IDLE its accumulated lines are empty and its separator flag is       *)
(* false: add_line appends only while the parser is PARSING, and           *)
(* complete() returns the accumulated lines and leaves the parser IDLE     *)
(* and cleared.                                                            *)
(***************************************************************************)
C19_IdleIsCleared ==
    /\ [](sp_state = "IDLE" => sp_lines = <<>> /\ ~sp_seen_separator)
    /\ [][ /\ op' = "add_line" => sp_state = "PARSING" \/ sp_lines' = sp_lines
           /\ op' = "complete" =>
                 /\ sp_returned' = sp_lines
                 /\ sp_state' = "IDLE"
                 /\ sp_lines' = <<>>
                 /\ ~sp_seen_separator'
         ]_vars

(***************************************************************************)
(* Status blocks: what a block is expected to report.                      *)
(***************************************************************************)
\* a client row the parser of the transport turns into a client record: its
\* address is well formed, or it is a bot row of the line-based transport
ValidRow(l) ==
    /\ l.kind = "row"
    /\ \/ l.address.bot /\ transport = "openarena"
       \/ /\ Len(l.address.octets) = 4
          /\ \A i \in 1..4 : l.address.octets[i] \in 0..255

\* the positions of the client rows of block that follow its first `skip` lines
RowsOf(block, skip) == {i \in (skip + 1)..Len(block) : ValidRow(block[i])}

\* the first row of client cid among the positions rows
FirstRowOf(block, rows, cid) ==
    CHOOSE i \in rows :
       /\ block[i].client_id = cid
       /\ \A k \in rows : block[k].client_id = cid => i <= k

\* clients holds exactly one record per client id among the rows, with the
\* name and the address of the first row of that id
OnePerDistinctId(clients, block, rows) ==
    /\ \A j \in 1..Len(clients) : \E i \in rows : block[i].client_id = clients[j].client_id
    /\ \A i \in rows :
          /\ Cardinality({j \in 1..Len(clients) :
                             clients[j].client_id = block[i].client_id}) = 1
          /\ \E j \in 1..Len(clients) :
                LET first == block[FirstRowOf(block, rows, block[i].client_id)] IN
                   /\ clients[j].client_id = first.client_id
                   /\ clients[j].name = first.name
                   /\ clients[j].ip = first.address.octets

\* header, separator, and then one or more valid client rows
WellFormedOABlock(block) ==
    /\ Len(block) >= 3
    /\ block[1].kind = "header"
    /\ block[2].kind = "separator"
    /\ \A i \in 3..Len(block) : ValidRow(block[i])

\* players header, column header, and then one or more valid client rows
WellFormedAMPBlock(block) ==
    /\ Len(block) >= 3
    /\ block[1].kind = "header"
    /\ block[2].kind = "column_header"
    /\ \A i \in 3..Len(block) : ValidRow(block[i])

\* the step processed a line that ended the open block
BlockEnds == st_block # <<>> /\ st_block' = <<>>

(***************************************************************************)
(* C15: in the OpenArena processor, when a block of header, separator and  *)
(* N >= 1 valid client rows is ended by an empty line or by a non-numeric  *)
(* line that is no marker, the returned message is a status_complete event *)
(* with exactly one client record per distinct client id among the rows,   *)
(* carrying the name and address of the first row of that id.              *)
(***************************************************************************)
C15_OABlockRoundTrip ==
    [][ (transport = "openarena" /\ BlockEnds /\ WellFormedOABlock(st_block)) =>
          /\ status_event'.status_complete
          /\ OnePerDistinctId(status_event'.clients, st_block, RowsOf(st_block, 2))
      ]_vars

(***************************************************************************)
(* C16: in the AMP processor, when a block of players header, column       *)
(* header and N valid client rows is ended by "#end", the returned message *)
(* is the one status_complete event of the block; its client list has one  *)
(* record per distinct client id among the rows, no id twice, with the     *)
(* names and addresses of the rows.                                        *)
(***************************************************************************)
C16_AMPBlockRoundTrip ==
    [][ (transport = "amp" /\ BlockEnds /\ WellFormedAMPBlock(st_block)) =>
          /\ status_event'.status_complete
          /\ Len(status_event'.clients) =
                Cardinality({st_block[i].client_id : i \in RowsOf(st_block, 2)})
          /\ \A j, k \in 1..Len(status_event'.clients) :
                status_event'.clients[j].client_id = status_event'.clients[k].client_id
                   => j = k
          /\ \A j \in 1..Len(status_event'.clients) :
                \E i \in RowsOf(st_block, 2) :
                   /\ status_event'.clients[j].client_id = st_block[i].client_id
                   /\ status_event'.clients[j].name = st_block[i].name
                   /\ status_event'.clients[j].ip = st_block[i].address.octets
      ]_vars

\* a block that holds client rows only after its two heading lines, at least
\* one of them malformed
BlockWithMalformedRow(block, second) ==
    /\ Len(block) >= 3
    /\ block[1].kind = "header"
    /\ block[2].kind = second
    /\ \A i \in 3..Len(block) : block[i].kind = "row"
    /\ \E i \in 3..Len(block) : ~ValidRow(block[i])

\* the step processed a malformed client row of such a block
MalformedRowStep(second) ==
    /\ st_block # <<>>
    /\ Len(st_block') = Len(st_block) + 1
    /\ BlockWithMalformedRow(st_block', second)
    /\ ~ValidRow(st_block'[Len(st_block')])

\* every valid row of block has its client in clients
AllValidRowsReported(clients, block) ==
    \A i \in RowsOf(block, 2) :
       \E j \in 1..Len(clients) :
          /\ clients[j].client_id = block[i].client_id
          /\ clients[j].ip = block[i].address.octets

(***************************************************************************)
(* C17: in both processors a client row that fails to parse inside an      *)
(* otherwise valid block yields no client record and leaves the processor  *)
(* inside the block, and when the block completes every valid row before   *)
(* and after it is reported.                                               *)
(***************************************************************************)
C17_MalformedRowDroppedAlone ==
    [][ /\ (transport = "openarena" /\ MalformedRowStep("separator")) =>
              /\ status_event'.clients = <<>>
              /\ ~status_event'.status_complete
              /\ sp_state' = "PARSING"
        /\ (transport = "amp" /\ MalformedRowStep("column_header")) =>
              /\ status_event'.clients = <<>>
              /\ ~status_event'.status_complete
              /\ in_player_section'
        /\ (transport = "openarena" /\ BlockEnds
                /\ BlockWithMalformedRow(st_block, "separator")) =>
              AllValidRowsReported(status_event'.clients, st_block)
        /\ (transport = "amp" /\ BlockEnds
                /\ BlockWithMalformedRow(st_block, "column_header")) =>
              AllValidRowsReported(status_event'.clients, st_block)
      ]_vars

\* the step processed a block header
HeaderStep == op' = "process_message" /\ st_block' = <<Line("header")>>

\* every record of clients comes from a valid row of block
OnlyFromRowsOf(clients, block) ==
    \A j \in 1..Len(clients) :
       \E i \in RowsOf(block, 1) :
          /\ clients[j].client_id = block[i].client_id
          /\ clients[j].name = block[i].name
          /\ clients[j].ip = block[i].address.octets

(***************************************************************************)
(* C18: a block header always wins.  start_parsing leaves the parser       *)
(* PARSING with no accumulated lines and the separator flag false whatever *)
(* its state was; in both processors a header received while a block is    *)
(* open discards what the block had collected, and a status_complete event *)
(* holds only clients of rows received after the latest header.            *)
(***************************************************************************)
C18_HeaderAlwaysWins ==
    [][ /\ op' = "start_parsing" =>
              /\ sp_state' = "PARSING"
              /\ sp_lines' = <<>>
              /\ ~sp_seen_separator'
        /\ (transport = "openarena" /\ HeaderStep) =>
              /\ sp_state' = "PARSING"
              /\ sp_lines' = <<Line("header")>>
              /\ ~sp_seen_separator'
              /\ ~status_event'.status_complete
        /\ (transport = "amp" /\ HeaderStep) =>
              /\ in_player_section'
              /\ collected_clients' = <<>>
              /\ ~status_event'.status_complete
        /\ (op' = "process_message" /\ status_event'.status_complete) =>
              OnlyFromRowsOf(status_event'.clients, st_block)
      ]_vars

\* a block has just completed with clients although its header had cut off
\* an earlier block that held valid client rows
C18_Witness ==
    /\ op = "process_message"
    /\ status_event.status_complete
    /\ status_event.clients # <<>>
    /\ st_discarded
    /\ st_block = <<>>

(***************************************************************************)
(* MatchShutdownStrategy.handle, one invocation: what it sends, schedules  *)
(* and calls.                                                              *)
(***************************************************************************)
\* what every invocation does whatever run_async makes of the coroutine
MatchShutdownEffects ==
    /\ round_count' = handle_match_shutdown_detected_count(current_state, round_count)
    /\ result' = handle_match_shutdown_detected_result(current_state, round_count,
                                                       max_rounds)
    /\ sent' \in {<<"killserver">>, <<"say Match completed!">>}
    /\ (sent' = <<"killserver">>) = result'.experiment_finished
    /\ (calls' = <<"rotate_latencies">>) = result'.round_completed
    /\ calls' \in {<<>>, <<"rotate_latencies">>}
    /\ sent' = <<"killserver">> => calls' = <<>>

(***************************************************************************)
(* C25: each MatchShutdownStrategy invocation schedules stop-recording     *)
(* (hands it to run_async, which submits it iff an async loop is set and   *)
(* no shutdown was requested), advances the round through                  *)
(* handle_match_shutdown_detected and sends exactly one of "killserver"    *)
(* (iff experiment_finished was reported) or "say Match completed!";       *)
(* rotate_latencies is invoked iff round_completed was reported, and never *)
(* together with killserver.                                               *)
(***************************************************************************)
C25_MatchShutdownInvocation ==
    [][ ShutdownStep("match_end") =>
            /\ scheduled' = IF async_loop /\ ~shutdown_event
                            THEN <<"stop_match_recording">> ELSE <<>>
            /\ MatchShutdownEffects
      ]_vars

\* the last round has just ended: killserver sent, stop-recording submitted,
\* no rotation
C25_Witness ==
    /\ last.message_type = "SERVER_SHUTDOWN"
    /\ last.event = "match_end"
    /\ result.experiment_finished
    /\ sent = <<"killserver">>
    /\ scheduled = <<"stop_match_recording">>
    /\ calls = <<>>
    /\ round_count >= 2

(***************************************************************************)
(* C26: on a warmup-end shutdown, if the player threshold is currently     *)
(* unmet (fewer humans tracked than nplayers_threshold) the strategy only  *)
(* re-arms another warmup round: no start-recording is scheduled, no       *)
(* latency rules are applied, the round state does not become RUNNING and  *)
(* round_count is unchanged; with the threshold met it schedules           *)
(* start-recording (hands it to run_async) and applies the latency rules.  *)
(***************************************************************************)
C26_WarmupShutdownByThreshold ==
    [][ ShutdownStep("warmup_end") =>
          /\ human_count < nplayers_threshold =>
                /\ calls' = <<"set_next_round_with_warmup_phase">>
                /\ scheduled' = <<>>
                /\ current_state' # "RUNNING"
                /\ round_count' = round_count
          /\ human_count >= nplayers_threshold =>
                /\ scheduled' = run_async("start_match_recording", async_loop,
                                          shutdown_event)
                /\ calls' = <<"apply_latency_rules">>
      ]_vars

(***************************************************************************)
(* C27: every change of the round state is one of: WAITING->WARMUP or      *)
(* RUNNING->WARMUP on a warmup-start event; any state->RUNNING on a        *)
(* game-initialization event; WARMUP->RUNNING on a match-start-detected    *)
(* event; any state->WAITING through reset_to_waiting.  A warmup-start     *)
(* event alone never yields RUNNING, and match-start-detected in WAITING   *)
(* or RUNNING leaves the state unchanged and returns no actions.           *)
(***************************************************************************)
C27_RoundStateTransitions ==
    [][ /\ current_state' # current_state =>
              \/ /\ op' = "handle_warmup_detected"
                 /\ current_state \in {"WAITING", "RUNNING"}
                 /\ current_state' = "WARMUP"
              \/ /\ op' = "handle_game_initialization_detected"
                 /\ current_state' = "RUNNING"
              \/ /\ op' = "handle_match_start_detected"
                 /\ current_state = "WARMUP"
                 /\ current_state' = "RUNNING"
              \/ /\ op' = "reset_to_waiting"
                 /\ current_state' = "WAITING"
        /\ op' = "handle_warmup_detected" => current_state' # "RUNNING"
        /\ (op' = "handle_match_start_detected"
              /\ current_state \in {"WAITING", "RUNNING"}) =>
              /\ current_state' = current_state
              /\ result'.actions = <<>>
              /\ ~result'.state_changed
      ]_vars

\* match-start-detected has just been ignored in WAITING, after a reset that
\* followed an earlier counted round
C27_Witness ==
    /\ op = "handle_match_start_detected"
    /\ current_state = "WAITING"
    /\ result = NoResult
    /\ round_count >= 2

(***************************************************************************)
(* OAMessageProcessor.process_message as a whole: the six marker patterns  *)
(* first, then the status block, with the send_command callback.           *)
(***************************************************************************)
\* a console line given by its text
Console(text) == [kind |-> "console", client_id |-> -1, name |-> text,
                  address |-> NoAddress]

\* _handle_client_connecting issuing "status" twice
handle_client_connecting_calls_twice(callback) ==
    IF callback THEN <<"status", "status">> ELSE <<>>

\* _handle_client_connecting: if self.send_command: self.send_command("status")
handle_client_connecting_calls(callback) ==
    IF callback THEN <<"status">> ELSE <<>>

\* the ParsedMessage of a line handled by the status branch
StatusMessage(event) ==
    [message_type |-> event.message_type, event |-> "none", client_id |-> -1]

\* process_message continuing an open status block before it tries the
\* marker patterns
OAMessageProcessor_process_message_absorbing(line, state, lines, sep, hit, callback) ==
    LET t == IF line.kind = "console" THEN process_message_type(line.name)
             ELSE "UNKNOWN"
        asText == IF line.kind = "console" THEN Line("text") ELSE line
    IN  IF t # "UNKNOWN" /\ state # "PARSING"
        THEN [parser        |-> ParserState(state, lines, sep,
                                            OtherMessage(t)),
              message       |-> process_message(line.name, hit),
              fraglimit_hit |-> process_message_fraglimit_hit(line.name, hit),
              calls         |-> IF t = "CLIENT_CONNECT"
                                THEN handle_client_connecting_calls(callback)
                                ELSE <<>>]
        ELSE LET p == oa_process_message(asText, state, lines, sep) IN
             [parser        |-> p,
              message       |-> StatusMessage(p.event),
              fraglimit_hit |-> hit,
              calls         |-> <<>>]

\* process_message: an empty line and a line matching no marker pattern go
\* to the status branch (a console text that is no marker is plain text to
\* the status parser); a marker line returns from its handler before the
\* status parser is looked at
OAMessageProcessor_process_message(line, state, lines, sep, hit, callback) ==
    LET t == IF line.kind = "console" THEN process_message_type(line.name)
             ELSE "UNKNOWN"
        asText == IF line.kind = "console" THEN Line("text") ELSE line
    IN  IF t # "UNKNOWN"
        THEN [parser        |-> ParserState(state, lines, sep,
                                            OtherMessage(t)),
              message       |-> process_message(line.name, hit),
              fraglimit_hit |-> process_message_fraglimit_hit(line.name, hit),
              calls         |-> IF t = "CLIENT_CONNECT"
                                THEN handle_client_connecting_calls(callback)
                                ELSE <<>>]
        ELSE LET p == oa_process_message(asText, state, lines, sep) IN
             [parser        |-> p,
              message       |-> StatusMessage(p.event),
              fraglimit_hit |-> hit,
              calls         |-> <<>>]

\* the lines the processor is given: every console text, and the lines of a
\* status block with one well-formed and one malformed client row
ProcessorLines ==
    {Console(l) : l \in Lines \ {""}}
    \cup {Line("header"), Line("separator"), Line("map"), Line("empty"),
          Line("text")}
    \cup {r \in Rows : \/ r.client_id = 0 /\ r.name = "Alice"
                       \/ r.client_id = 1 /\ r.name = "Eve"}

MP_ProcessMessage(line) ==
    LET r == OAMessageProcessor_process_message(line, sp_state, sp_lines,
                 sp_seen_separator, recent_fraglimit_hit, send_command) IN
    /\ Len(r.parser.lines) <= MaxBlockLines
    /\ sp_state' = r.parser.state
    /\ sp_lines' = r.parser.lines
    /\ sp_seen_separator' = r.parser.seen_separator
    /\ status_event' = r.parser.event
    /\ last' = r.message
    /\ recent_fraglimit_hit' = r.fraglimit_hit
    /\ exit_pending' = IF line.kind = "console"
                       THEN ExitPendingAfter(line.name, exit_pending)
                       ELSE exit_pending
    /\ callback_calls' = r.calls
    /\ mp_line' = line
    /\ op' = "process_message"
    /\ UNCHANGED <<gsmVars, cfgVars, ampVars, raVars, scVars, nmVars, gmVars, ipVars,
                   send_command,
                   transport, sp_returned, in_player_section, collected_clients,
                   st_block, st_discarded, process, orphaned, shutdown_event, async_loop,
                   insufficient_humans, client_type_map, human_count, oa_pc, sent,
                   scheduled, calls, bots_added, bot_addition_in_progress>>

\* OAMessageProcessor(send_command_callback): the callback is optional
InitProcessor ==
    /\ InitGameStateManager
    /\ InitOAMessageProcessor
    /\ InitOAGameAdapter
    /\ InitAMPGameAdapter
    /\ InitRunAsync
    /\ InitSendCommandSync
    /\ InitNetworkManager
    /\ InitStatusProcessors
    /\ InitHistory
    /\ DefaultSettings
    /\ transport = "openarena"
    /\ send_command \in BOOLEAN
    /\ callback_calls = <<>>
    /\ mp_line = NoLine
    /\ InitGameManager
    /\ InitValidators

NextProcessor == \E line \in ProcessorLines : MP_ProcessMessage(line)

SpecProcessor == InitProcessor /\ [][NextProcessor]_vars

\* the marker patterns a console text matches, by the message type of each
MatchingPatterns(raw) ==
    LET l == Strip(raw) IN
    {t \in {"CLIENT_CONNECT", "CLIENT_DISCONNECT", "GAME_INITIALIZATION",
            "GAME_END", "WARMUP_START", "SERVER_SHUTDOWN"} :
        \/ t = "CLIENT_CONNECT" /\ MatchClientConnect(l)
        \/ t = "CLIENT_DISCONNECT" /\ MatchClientDisconnect(l)
        \/ t = "GAME_INITIALIZATION" /\ MatchGameInitialization(l)
        \/ t = "GAME_END" /\ MatchGameEnd(l)
        \/ t = "WARMUP_START" /\ MatchWarmupStart(l)
        \/ t = "SERVER_SHUTDOWN" /\ MatchServerShutdown(l)}

\* the line is a console text matching a marker pattern
IsMarkerLine(line) == line.kind = "console" /\ MatchingPatterns(line.name) # {}

(***************************************************************************)
(* C28: processing a "Client N connecting with P challenge ping" line      *)
(* invokes the injected send-command callback exactly once, with the text  *)
(* "status", and not at all when no callback was injected; no other kind   *)
(* of line makes the message processor invoke the callback.                *)
(***************************************************************************)
C28_StatusRequestedOnConnect ==
    [][ op' = "process_message" =>
          callback_calls' =
             IF /\ mp_line'.kind = "console"
                /\ MatchClientConnect(Strip(mp_line'.name))
                /\ send_command
             THEN <<"status">>
             ELSE <<>>
      ]_vars

\* a connect line has just been processed in the middle of a status block,
\* by a processor that has a callback
C28_Witness ==
    /\ mp_line = Console("Client 0 connecting with 50 challenge ping")
    /\ send_command
    /\ callback_calls = <<"status">>
    /\ sp_state = "PARSING"
    /\ sp_seen_separator

(***************************************************************************)
(* C29: every line matching one of the six marker patterns (connect,       *)
(* disconnect, game initialization, game end, warmup, shutdown) is         *)
(* classified as that marker's event whatever the parser state: a marker   *)
(* line arriving while a status block is in progress leaves the status     *)
(* parser state unchanged (it is neither absorbed nor ends the block), the *)
(* line that ends a block is never a marker line, and no line matches two  *)
(* marker patterns.                                                        *)
(***************************************************************************)
C29_MarkersNeverShadowed ==
    /\ [](\A l \in Lines : Cardinality(MatchingPatterns(l)) <= 1)
    /\ [][ op' = "process_message" =>
             /\ IsMarkerLine(mp_line') =>
                   /\ last'.message_type \in MatchingPatterns(mp_line'.name)
                   /\ status_event'.message_type = last'.message_type
                   /\ UNCHANGED <<sp_state, sp_lines, sp_seen_separator>>
             /\ (sp_state = "PARSING" /\ sp_state' = "IDLE") =>
                   ~IsMarkerLine(mp_line')
         ]_vars

\* a shutdown line was classified while a status block with a client row was
\* open, and the block is still open
C29_Witness ==
    /\ mp_line = Console("  ShutdownGame:")
    /\ last.message_type = "SERVER_SHUTDOWN"
    /\ sp_state = "PARSING"
    /\ sp_seen_separator
    /\ Len(sp_lines) >= 3

(***************************************************************************)
(* The order of the events of read_messages.                               *)
(***************************************************************************)
\* _run_server_loop_async: self.message_handlers.get(msg.message_type), as
\* the set of handlers the message is dispatched to
amp_message_handlers_get(message_type) ==
    IF message_type = "STATUS_UPDATE" THEN {"_on_status"} ELSE {}

\* the positions of the non-blank lines of an entry
NonBlankPositions(entry) ==
    {i \in 1..Len(entry.lines) : NonBlank(entry.lines[i])}

\* the position of the k-th non-blank line of an entry
NthNonBlank(entry, k) ==
    CHOOSE i \in NonBlankPositions(entry) :
        Cardinality({j \in NonBlankPositions(entry) : j <= i}) = k

(***************************************************************************)
(* C30: read_messages yields events in transport order: the entries of a   *)
(* poll in the order GetUpdates returned them, a poll only after the       *)
(* entries of the poll before it are used up, and for an entry that is not *)
(* a duplicate exactly one event per non-blank line, in line order; each   *)
(* yielded message is dispatched to at most one handler.                   *)
(***************************************************************************)
C30_TransportOrder ==
    /\ [][ /\ (amp_pc = "entries" /\ amp_updates' # amp_updates) =>
                /\ op' = "process_entry"
                /\ amp_updates # <<>>
                /\ amp_updates' = Tail(amp_updates)
           /\ ProcessEntryStep =>
                IF InCache(seen_messages, msg_key(NextEntry))
                THEN amp_yield' = <<>>
                ELSE /\ Len(amp_yield') = Cardinality(NonBlankPositions(NextEntry))
                     /\ \A k \in 1..Len(amp_yield') :
                           amp_yield'[k] = NextEntry.lines[NthNonBlank(NextEntry, k)]
           /\ op' = "get_updates" => amp_updates = <<>> /\ amp_yield' = <<>>
           /\ op' # "process_entry" => amp_yield' = <<>>
         ]_vars
    /\ [](\A t \in {"CLIENT_CONNECT", "CLIENT_DISCONNECT", "GAME_INITIALIZATION",
                    "GAME_END", "WARMUP_START", "SERVER_SHUTDOWN", "STATUS_UPDATE",
                    "UNKNOWN"} :
             Cardinality(amp_message_handlers_get(t)) <= 1)

\* the second entry of a poll, a three-line entry with a blank line in the
\* middle, has just yielded its two events in line order
C30_Witness ==
    /\ op = "process_entry"
    /\ amp_yield = <<"ShutdownGame:", "Warmup:">>
    /\ Len(seen_messages) = 2
    /\ amp_pc = "entries"

(***************************************************************************)
(* C22: connect() returns false without raising when authentication (AMP)  *)
(* fails, and leaves the adapter's state exactly as it was before the      *)
(* call: the shutdown-requested flag, the polling flag, the dedup cache    *)
(* and the authentication state are unchanged.                             *)
(***************************************************************************)
C22_FailedConnectChangesNothing ==
    [][ op' = "connect_false" =>
          UNCHANGED <<amp_shutdown_requested, amp_polling, seen_messages,
                      amp_authenticated, amp_pc>>
      ]_vars

(***************************************************************************)
(* C24: disconnect() always releases the transport: after any sequence of  *)
(* connect (successful or failed) and disconnect calls, once disconnect()  *)
(* has returned the HTTP session is closed and unauthenticated; a further  *)
(* disconnect() changes nothing.                                           *)
(***************************************************************************)
C24_DisconnectReleasesTransport ==
    /\ [](op = "disconnect" => ~amp_authenticated /\ amp_http_session # "open")
    /\ [][ (op = "disconnect" /\ op' = "disconnect") =>
              UNCHANGED <<amp_polling, amp_shutdown_requested, amp_authenticated,
                          seen_messages, amp_http_session>>
         ]_vars

(***************************************************************************)
(* C23: connect() is idempotent: calling it on an adapter that is already  *)
(* connected starts no second child process and does not orphan the        *)
(* existing child, so no child that the adapter started is ever left       *)
(* running without a handle.                                               *)
(***************************************************************************)
C23_ConnectIdempotent ==
    /\ [](orphaned = 0)
    /\ [][ (process = "running" /\ process' = "running") =>
              orphaned' = orphaned ]_vars

(***************************************************************************)
(* C21: a tracked client id stays tracked, with the record it has, until a *)
(* ClientDisconnect event for that same id is processed: no status block   *)
(* (one that reports the id again, as a human or as a bot, included), no   *)
(* warmup, game-initialization or shutdown event removes or changes it;    *)
(* and a client record is created only when a status block reports an id   *)
(* that is not currently tracked.                                          *)
(***************************************************************************)
C21_TrackedUntilDisconnect ==
    [][ \A c \in ClientIds :
          /\ (client_type_map[c] # "NONE" /\ client_type_map'[c] # client_type_map[c]) =>
                /\ DispatchStep
                /\ last'.message_type = "CLIENT_DISCONNECT"
                /\ last'.client_id = c
                /\ client_type_map'[c] = "NONE"
          /\ (client_type_map[c] = "NONE" /\ client_type_map'[c] # "NONE") =>
                /\ DispatchStep
                /\ last'.message_type = "STATUS_UPDATE"
                /\ last'.client_id = c
                /\ calls' = <<"add_client">>
      ]_vars

\* a status row has just reported client 0, which was tracked already, after
\* a round was counted: nothing was added and both clients are still tracked
C21_Witness ==
    /\ last.message_type = "STATUS_UPDATE"
    /\ last.client_id = 0
    /\ calls = <<>>
    /\ client_type_map[0] = "HUMAN"
    /\ client_type_map[1] = "BOT"
    /\ round_count >= 2

(***************************************************************************)
(* C34: in every reachable state of the subprocess adapter,                *)
(* insufficient_humans equals (number of tracked HUMAN clients <           *)
(* nplayers_threshold): in the initial state with no clients as well as    *)
(* after every client discovery and disconnect.                            *)
(***************************************************************************)
C34_FlagReflectsClientMap ==
    insufficient_humans = (CountType(client_type_map, "HUMAN") < nplayers_threshold)

\* the match-end shutdown on which the experiment finishes first
FirstFinishingShutdown == IF max_rounds - 1 > 1 THEN max_rounds - 1 ELSE 1

(***************************************************************************)
(* C33: round_count starts at 1 and is incremented before it is compared   *)
(* with max_rounds, so the first experiment_finished result and the first  *)
(* "killserver" occur on the k-th match-end shutdown handled in RUNNING,   *)
(* k = max(1, max_rounds - 1); no shutdown strategy sends "killserver"     *)
(* before that, and every earlier match-end shutdown handled in RUNNING    *)
(* reports round_completed.  (The number of match-end shutdowns handled in *)
(* RUNNING so far is round_count - 1.)                                     *)
(***************************************************************************)
C33_FirstKillserver ==
    /\ [][ (ShutdownStep("match_end") /\ current_state = "RUNNING") =>
             /\ round_count' - 1 = round_count
             /\ round_count < FirstFinishingShutdown =>
                   /\ result'.round_completed
                   /\ ~result'.experiment_finished
                   /\ sent' = <<"say Match completed!">>
             /\ round_count = FirstFinishingShutdown =>
                   /\ result'.experiment_finished
                   /\ sent' = <<"killserver">>
         ]_vars
    /\ [][ (DispatchStep /\ sent' = <<"killserver">>) =>
             /\ ShutdownStep("match_end")
             /\ current_state = "RUNNING"
             /\ round_count >= FirstFinishingShutdown
         ]_vars
    /\ [](round_count >= 1)

\* with max_rounds = 3 the second match-end shutdown handled in RUNNING has
\* just sent the first killserver
C33_Witness ==
    /\ max_rounds = 3
    /\ round_count = 3
    /\ last.message_type = "SERVER_SHUTDOWN"
    /\ last.event = "match_end"
    /\ result.experiment_finished
    /\ sent = <<"killserver">>

\* an iteration of run_server_loop dispatches the line it read
LoopDispatchStep ==
    /\ oa_pc = "read"
    /\ oa_pc' = "check"
    /\ last'.message_type # "NONE"

add_bots_may_start_unguarded(added, enabled, in_progress) == ~added /\ enabled

\* the three early returns of add_bots_to_server_async: the coroutine goes on
\* to send the batch iff none of them is taken (should_add_bots: bot_enable
\* and bot_count > 0)
add_bots_may_start(added, enabled, in_progress) ==
    ~added /\ (enabled /\ BotCount > 0) /\ ~in_progress

\* the position of the next coroutine _on_warmup schedules
FreeBotTask == CHOOSE t \in BotTasks : bot_task[t] = "none" /\ \A u \in BotTasks : (bot_task[u] = "none" => t <= u)

\* process_server_message("Warmup:"): _on_warmup, and the coroutine it
\* submitted if run_async accepted it
GM_WarmupLine ==
    /\ ProcessServerMessage("Warmup:")
    /\ IF scheduled' = <<>>
       THEN UNCHANGED bot_task
       ELSE /\ \E t \in BotTasks : bot_task[t] = "none"
            /\ bot_task' = [bot_task EXCEPT ![FreeBotTask] = "scheduled"]
    /\ UNCHANGED <<oa_pc, bot_i, batch_senders>>
    /\ UNCHANGED <<ampVars, raVars, scVars, nmVars, stVars, mpVars, ipVars>>

GMTaskFrame ==
    UNCHANGED <<gsmVars, procVars, histVars, cfgVars, ampVars, raVars, scVars,
                nmVars, stVars, mpVars, ipVars, process, orphaned, shutdown_event,
                async_loop, insufficient_humans, client_type_map, human_count,
                oa_pc, last, scheduled, calls>>

\* the loop runs coroutine t from its start to its first await: the early
\* returns, or the in-progress flag is set and the first addbot is sent
GM_TaskStart(t) ==
    /\ bot_task[t] = "scheduled"
    /\ IF add_bots_may_start(bots_added, bot_enable, bot_addition_in_progress)
       THEN /\ bot_addition_in_progress' = TRUE
            /\ sent' = <<"addbot">>
            /\ bot_i' = [bot_i EXCEPT ![t] = 1]
            /\ bot_task' = [bot_task EXCEPT ![t] = "sleeping"]
            /\ batch_senders' = batch_senders \cup {t}
            /\ UNCHANGED bots_added
       ELSE /\ sent' = <<>>
            /\ bot_task' = [bot_task EXCEPT ![t] = "done"]
            /\ UNCHANGED <<bot_i, batch_senders, bots_added, bot_addition_in_progress>>
    /\ op' = "add_bots_to_server_async"
    /\ GMTaskFrame

\* the loop resumes coroutine t after asyncio.sleep(0.1): the next addbot, or
\* the end of the batch (bots_added is set, the finally clause clears the
\* in-progress flag)
GM_TaskResume(t) ==
    /\ bot_task[t] = "sleeping"
    /\ IF bot_i[t] < BotCount
       THEN /\ sent' = <<"addbot">>
            /\ bot_i' = [bot_i EXCEPT ![t] = @ + 1]
            /\ UNCHANGED <<bot_task, bots_added, bot_addition_in_progress>>
       ELSE /\ sent' = <<"say">>
            /\ bots_added' = TRUE
            /\ bot_addition_in_progress' = FALSE
            /\ bot_task' = [bot_task EXCEPT ![t] = "done"]
            /\ UNCHANGED bot_i
    /\ UNCHANGED batch_senders
    /\ op' = "add_bots_to_server_async"
    /\ GMTaskFrame

\* dispose: the shutdown flag is set, reset_bot_state clears both flags, the
\* child is terminated
GM_Dispose ==
    /\ shutdown_event' = TRUE
    /\ bots_added' = FALSE
    /\ bot_addition_in_progress' = FALSE
    /\ batch_senders' = {}
    /\ process' = IF process = "running" THEN "exited" ELSE process
    /\ op' = "dispose"
    /\ UNCHANGED <<gsmVars, procVars, histVars, cfgVars, ampVars, raVars, scVars,
                   nmVars, stVars, mpVars, ipVars, orphaned, async_loop,
                   insufficient_humans, client_type_map, human_count,
                   oa_pc, last, sent, scheduled, calls, bot_task, bot_i>>

InitBots ==
    /\ InitGameStateManager
    /\ InitOAMessageProcessor
    /\ InitOAGameAdapter
    /\ InitAMPGameAdapter
    /\ InitExt
    /\ InitHistory
    /\ max_rounds = MaxMaxRounds
    /\ nplayers_threshold = 1
    /\ latency_enabled = FALSE
    /\ bot_enable \in BOOLEAN

NextBots ==
    \/ GM_WarmupLine
    \/ \E t \in BotTasks : GM_TaskStart(t)
    \/ \E t \in BotTasks : GM_TaskResume(t)
    \/ GM_Dispose
    \/ OA_SetAsyncLoop /\ UNCHANGED <<ampVars, extVars>>

SpecBots == InitBots /\ [][NextBots]_vars

(***************************************************************************)
(* C38: the bot-addition batch is sent at most once until reset_bot_state: *)
(* of the add_bots_to_server_async coroutines scheduled by warmup-start    *)
(* events, also those scheduled before the first of them ran, at most one  *)
(* begins sending addbot commands; the others return without sending.      *)
(***************************************************************************)
C38_BatchSentOnce ==
    /\ [](Cardinality(batch_senders) <= 1)
    /\ [][ \A t \in BotTasks :
             (bot_task[t] = "scheduled" /\ bot_task'[t] # "scheduled" /\ batch_senders # {})
                => (bot_task'[t] = "done" /\ bot_i' = bot_i /\ sent' = <<>>)
       ]_vars

\* two coroutines were scheduled before either ran; one has sent the whole
\* batch and the other has returned without sending
C38_Witness ==
    /\ ~shutdown_event
    /\ \A t \in BotTasks : bot_task[t] = "done"
    /\ Cardinality(batch_senders) = 1
    /\ \E t \in BotTasks : bot_i[t] = BotCount
    /\ \E t \in BotTasks : bot_i[t] = 0
    /\ bots_added

(***************************************************************************)
(* C36: after any sequence of discoveries and disconnects the counts of    *)
(* NetworkManager match its client map: human_count is the number of       *)
(* tracked ids typed HUMAN, bot_count the number typed BOT, and            *)
(* player_count = human_count + bot_count is the number of tracked ids.    *)
(***************************************************************************)
C36_CountsMatchClientMap ==
    /\ human_count = CountType(client_type_map, "HUMAN")
    /\ bot_count = CountType(client_type_map, "BOT")
    /\ player_count = human_count + bot_count
    /\ player_count = Cardinality({c \in ClientIds : client_type_map[c] # "NONE"})

\* clients were discovered and one has disconnected since: the line
\* processed last is the ClientDisconnect of an id no longer tracked, and
\* one bot is left
C36_Witness ==
    /\ last.message_type = "CLIENT_DISCONNECT"
    /\ client_type_map[last.client_id] = "NONE"
    /\ bot_count = 1
    /\ human_count = 0
    /\ player_count = 1

(***************************************************************************)
(* C37: a client id is registered (add_client called and, for a human, the *)
(* OBS connect scheduled) at most once between two ClientDisconnect events *)
(* of that id: a status row registers its id only if the id is not         *)
(* tracked, a row for a tracked id calls and schedules nothing however     *)
(* often it arrives, no other event registers anything, and an id stops    *)
(* being tracked only when its ClientDisconnect is processed.              *)
(***************************************************************************)
C37_RegisteredOnce ==
    /\ [][ (DispatchStep /\ last'.message_type = "STATUS_UPDATE") =>
             IF client_type_map[last'.client_id] # "NONE"
             THEN /\ calls' = <<>>
                  /\ scheduled' = <<>>
                  /\ client_type_map' = client_type_map
             ELSE /\ calls' = <<"add_client">>
                  /\ client_type_map'[last'.client_id] # "NONE"
                  /\ \A d \in ClientIds \ {last'.client_id} :
                        client_type_map'[d] = client_type_map[d]
                  /\ scheduled' # <<>> => client_type_map'[last'.client_id] = "HUMAN"
         ]_vars
    /\ [][ (DispatchStep /\ last'.message_type # "STATUS_UPDATE") =>
             /\ calls' # <<"add_client">>
             /\ scheduled' # <<"connect_single_client_immediately">>
         ]_vars
    /\ [][ \A c \in ClientIds :
             (client_type_map[c] # "NONE" /\ client_type_map'[c] = "NONE") =>
                (last'.message_type = "CLIENT_DISCONNECT" /\ last'.client_id = c)
         ]_vars

\* a row for client 1, tracked as a human, has arrived again while the OBS
\* connect could have been scheduled: nothing was called or scheduled
C37_Witness ==
    /\ last.message_type = "STATUS_UPDATE"
    /\ last.client_id = 1
    /\ client_type_map[1] = "HUMAN"
    /\ async_loop /\ ~shutdown_event
    /\ calls = <<>>
    /\ scheduled = <<>>

\* the line processed last is a bot row in the client table of an open
\* status block (for OpenArena the table begins after the separator line)
BotRowProcessed ==
    /\ op = "process_message"
    /\ transport = "openarena" => sp_seen_separator
    /\ st_block # <<>>
    /\ st_block[Len(st_block)].kind = "row"
    /\ st_block[Len(st_block)].address.bot

(***************************************************************************)
(* C31: a status-block row that represents a bot yields a client record    *)
(* classified as a bot with no address, for the bot marker of each         *)
(* transport (address column "bot" for OpenArena, the " BOT " column for   *)
(* AMP).                                                                   *)
(***************************************************************************)
C31_BotRowYieldsBotRecord ==
    (transport \in {"openarena", "amp"} /\ BotRowProcessed) =>
        /\ status_event.message_type = "STATUS_UPDATE"
        /\ Len(status_event.clients) = 1
        /\ status_event.clients[1].client_id = st_block[Len(st_block)].client_id
        /\ status_event.clients[1].type = "BOT"
        /\ status_event.clients[1].ip = <<>>

(***************************************************************************)
(* _is_valid_ip of OAStatusParser and of AMPStatusParser.  The argument is *)
(* given by the list ip.split(".") makes of it: "" is <<"">>, "bot" is     *)
(* <<"bot">>, "0.0.0.256" is <<"0", "0", "0", "256">>.                   *)
(***************************************************************************)
\* largest number of dot-separated parts explored
MaxParts == 5

\* parts written with decimal digits only
DecimalParts == {"0", "255", "256", "007"}

\* parts that are not a number
NonNumericParts == {"", "bot"}

\* the parts of the arguments
Parts == DecimalParts \cup NonNumericParts \cup {"-1", "+1"}

ValueError == [ok |-> FALSE, value |-> 0]

IntValue(n) == [ok |-> TRUE, value |-> n]

\* int(part): the integer, or ValueError
int(part) ==
    CASE part = "0" -> IntValue(0)
      [] part = "255" -> IntValue(255)
      [] part = "256" -> IntValue(256)
      [] part = "007" -> IntValue(7)
      [] part = "-1" -> IntValue(-1)
      [] part = "+1" -> IntValue(1)
      [] OTHER -> ValueError

\* mutant of AMPStatusParser_is_valid_ip: no upper limit for a part
AMPStatusParser_is_valid_ip_unlimited(parts) ==
    /\ Len(parts) = 4
    /\ \A i \in 1..Len(parts) : int(parts[i]).ok /\ 0 <= int(parts[i]).value

\* AMPStatusParser._is_valid_ip: four parts, all(0 <= int(p) <= 255), any
\* exception is False
AMPStatusParser_is_valid_ip(parts) ==
    /\ Len(parts) = 4
    /\ \A i \in 1..Len(parts) :
          int(parts[i]).ok /\ 0 <= int(parts[i]).value /\ int(parts[i]).value <= 255

\* OAStatusParser._is_valid_ip: False for the empty string; four parts; a
\* part below 0 or above 255 is False; ValueError is False
OAStatusParser_is_valid_ip(parts) ==
    /\ parts # <<"">>
    /\ Len(parts) = 4
    /\ \A i \in 1..Len(parts) : int(parts[i]).ok
    /\ ~\E i \in 1..Len(parts) : int(parts[i]).value < 0 \/ int(parts[i]).value > 255

\* both validators are called with the same argument
IP_Validate ==
    /\ op = "init"
    /\ oa_valid' = OAStatusParser_is_valid_ip(ip_parts)
    /\ amp_valid' = AMPStatusParser_is_valid_ip(ip_parts)
    /\ op' = "is_valid_ip"
    /\ UNCHANGED ip_parts
    /\ UNCHANGED <<gsmVars, procVars, oaVars, cfgVars, histVars, ampVars, raVars,
                   scVars, nmVars, stVars, mpVars, gmVars>>

InitValidate ==
    /\ InitGameStateManager
    /\ InitOAMessageProcessor
    /\ InitOAGameAdapter
    /\ InitAMPGameAdapter
    /\ InitRunAsync
    /\ InitSendCommandSync
    /\ InitNetworkManager
    /\ InitStatusProcessors
    /\ InitMessageProcessor
    /\ InitGameManager
    /\ InitHistory
    /\ DefaultSettings
    /\ transport = "parser"
    /\ ip_parts \in UNION {[1..n -> Parts] : n \in 1..MaxParts}
    /\ oa_valid = FALSE
    /\ amp_valid = FALSE

NextValidate == IP_Validate

SpecValidate == InitValidate /\ [][NextValidate]_vars

\* the value of a part written with decimal digits only
DecimalValue(part) ==
    CASE part = "0" -> 0 [] part = "255" -> 255
      [] part = "256" -> 256 [] part = "007" -> 7

(***************************************************************************)
(* C32: IP validation accepts every string of exactly four dot-separated   *)
(* decimal octets each in 0..255, and rejects every string with an octet   *)
(* above 255, a negative or non-numeric octet, or a number of segments     *)
(* other than four (the empty string and "bot" included); the validators   *)
(* of the two transports agree on every input.                             *)
(***************************************************************************)
C32_IPValidation ==
    op = "is_valid_ip" =>
      /\ oa_valid = amp_valid
      /\ ( /\ Len(ip_parts) = 4
           /\ \A i \in 1..Len(ip_parts) :
                 ip_parts[i] \in DecimalParts /\ DecimalValue(ip_parts[i]) <= 255 )
            => oa_valid = TRUE
      /\ ( \/ Len(ip_parts) # 4
           \/ \E i \in 1..Len(ip_parts) :
                 \/ ip_parts[i] \in DecimalParts /\ DecimalValue(ip_parts[i]) > 255
                 \/ ip_parts[i] = "-1"
                 \/ ip_parts[i] \in NonNumericParts )
            => oa_valid = FALSE

\* "255.0.0.007" was validated, and accepted by both validators
C32_Witness ==
    /\ op = "is_valid_ip"
    /\ ip_parts = <<"255", "0", "0", "007">>
    /\ oa_valid = TRUE
    /\ amp_valid = TRUE

(***************************************************************************)
(* AMPGameAdapter.read_messages feeding AMPMessageProcessor: the console   *)
(* entries of the panel are the lines of status blocks, one line per       *)
(* entry; an entry that passes the dedup check is handed to                *)
(* process_message line by line.                                           *)
(***************************************************************************)
\* the contents of the entries: PLAYER_SECTION_START, PLAYER_SECTION_END and
\* a line that is neither
StatusEntryLines == { <<"---------players--------">>, <<"#end">>, <<"hostname: arena">> }

StatusEntries == [timestamp : Timestamps, lines : StatusEntryLines]

StatusPollResponses ==
    UNION { [1..n -> StatusEntries] : n \in 0..MaxEntriesPerPoll }

\* is_status_header / is_section_end applied to the text of a line
status_line(text) ==
    IF text = "---------players--------" THEN Line("header")
    ELSE IF text = "#end" THEN Line("end")
    ELSE Line("text")

RECURSIVE process_lines(_, _, _, _)
\* the for loop over the lines read_messages yields for one entry: the
\* section state after process_message of each, and the last message
process_lines(ls, in_section, clients, event) ==
    IF ls = <<>> THEN SectionState(in_section, clients, event)
    ELSE LET p == amp_process_message(status_line(Head(ls)), in_section, clients) IN
         process_lines(Tail(ls), p.in_player_section, p.collected_clients, p.event)

\* the body of the for loop for the next console entry of the poll
AMPS_ProcessEntry ==
    /\ amp_pc = "entries"
    /\ amp_updates # <<>>
    /\ LET entry == Head(amp_updates)
           p == process_lines(yielded_lines(seen_messages, entry), in_player_section,
                              collected_clients, status_event) IN
          /\ seen_messages' = seen_messages_after(seen_messages, entry)
          /\ amp_yield' = yielded_lines(seen_messages, entry)
          /\ amp_delivered' = amp_delivered \cup {msg_key(entry)}
          /\ in_player_section' = p.in_player_section
          /\ collected_clients' = p.collected_clients
          /\ status_event' = p.event
    /\ amp_updates' = Tail(amp_updates)
    /\ op' = "process_entry"
    /\ UNCHANGED <<amp_authenticated, amp_pc, amp_http_session, amp_polling,
                   amp_shutdown_requested, amp_panel>>
    /\ UNCHANGED <<gsmVars, procVars, oaVars, cfgVars, histVars, raVars, scVars,
                   nmVars, mpVars, gmVars, ipVars, transport, sp_state, sp_lines,
                   sp_seen_separator, sp_returned, st_block, st_discarded>>

NextAMPStatus ==
    \/ \E ok \in BOOLEAN : AMP_Connect(ok)
    \/ AMP_ReadMessages
    \/ \E entries \in StatusPollResponses : AMP_GetUpdates(entries)
    \/ AMPS_ProcessEntry
    \/ AMP_EntriesDone
    \/ AMP_Sleep
    \/ AMP_RequestShutdown
    \/ AMP_LoopExit

SpecAMPStatus == InitAMP /\ [][NextAMPStatus]_vars

\* the loop handles the console entry e of the poll
EntryStep(e) ==
    /\ amp_pc = "entries"
    /\ amp_updates # <<>>
    /\ Head(amp_updates) = e
    /\ amp_updates' = Tail(amp_updates)

(***************************************************************************)
(* C39: for the poll-based adapter every player section opened by a header *)
(* entry is closed by the next "#end" line the panel returns: the dedup    *)
(* cache suppresses no header and no "#end" line of a new block, so after  *)
(* the loop has handled an "#end" entry the processor is not inside a      *)
(* section.                                                                *)
(***************************************************************************)
C39_EndClosesSection ==
    [][ \A e \in StatusEntries :
          (EntryStep(e) /\ e.lines = <<"#end">>) => ~in_player_section'
      ]_vars

=============================================================================
